---- MODULE Spec2Model ----
(***************************************************************************)
(* DevCopilot VS Code extension: the CLI-output parsers                    *)
(* (parseSearchOutput, parseRagOutput, _parsePRSummary) and the subprocess *)
(* layer that feeds them (executeCLI, searchCodeHyde, searchCodeRag,       *)
(* summarizePR); ApiKeyManager, StateManager and the commands              *)
(* searchCodeRagCommand and summarizePRCommand.                            *)
(*                                                                         *)
(* Text is modelled as a sequence of atoms.  An atom stands for a fixed    *)
(* run of characters: one box-drawing character, one glyph, one blank,     *)
(* one punctuation mark, one digit, or one run of word characters.         *)
(* Literal substrings the code looks for ('Answer:', 'Supporting Sources') *)
(* are sequences of atoms, and every regular expression of the code is an  *)
(* operator over atom sequences that matches the way the expression does   *)
(* (leftmost match, greedy and lazy groups, backtracking of \s+).          *)
(*                                                                         *)
(* Glyph atoms are spelled in ASCII:                                       *)
(*   BoxV U+2502   BoxH U+2500   BoxTL U+250C  BoxTR U+2510                *)
(*   BoxBL U+2514  BoxBR U+2518                                            *)
(*   Pin U+1F4C4 (file)   Chart U+1F4CA (similarity)  Memo U+1F4DD (doc)   *)
(*   Bulb U+1F4A1 (answer) Warn U+26A0 U+FE0F  Diamond U+1F539             *)
(*   Bullet U+2022   CR carriage return                                    *)
(***************************************************************************)
EXTENDS Integers, Sequences, FiniteSets, TLC

VARIABLES
    fn,        \* the component under way: "search" | "rag" | "pr" | "cli" | "akm" | "sm" | "cmd" | "ix" | "rt"
    feed,      \* "fixed": the text is `lines`; "free": each line is drawn when it is read
    lines,     \* the split input text (fixed feed); <<>> under the free feed
    i,         \* loop index of the parser: the number of lines consumed
    redo,      \* <<line>> after `i--` (the next iteration reads it again), else <<>>
    pc,        \* "loop" | "done" | "threw"
    search,    \* locals of parseSearchOutput
    rag,       \* locals of parseRagOutput
    pr,        \* locals of _parsePRSummary
    history,   \* the parser calls that returned: <<[fn, text, result], ...>>
    akm,       \* ApiKeyManager: the three key stores and what its getters returned
    sm,        \* StateManager: the workspace state and the setPipelineConfig under way
    cmd,       \* the command under way: its position, its locals, what it spawned
    cli,       \* executeCLI's closure, its promise and the caller awaiting it
    ix,        \* the index, select-repository and search commands on one workspace
    rt         \* the PR summarization under way and the error view's retry

vars == <<fn, feed, lines, i, redo, pc, search, rag, pr, history, akm, sm, cmd, cli, ix, rt>>

\* what one call of a parser or of the subprocess leaves alone
aside == <<history, akm, sm, cmd, ix, rt>>

\* what the extension's managers leave alone
calls == <<fn, feed, lines, i, redo, pc, search, rag, pr, history, cli, ix, rt>>

\* what the index, select, search and retry commands leave alone
pipeline == <<fn, feed, lines, i, redo, pc, search, rag, pr, history, cli, akm, sm, cmd>>

\* null: a record no parser record is equal to
Null == [null |-> TRUE]

-----------------------------------------------------------------------------
(* Atoms and character classes                                             *)

BoxChars == {"BoxV", "BoxH", "BoxTL", "BoxTR", "BoxBL", "BoxBR"}
Glyphs == {"Pin", "Chart", "Memo", "Bulb", "Warn", "Diamond", "Bullet"}
Spaces == {" ", "CR", "LF"}
Digits == {"0", "1", "2", "3", "4", "5", "6", "7", "8", "9"}
Puncts == {":", "-", ".", "/", "[", "]", "=", "+"}

\* \s
IsSpace(a) == a \in Spaces
\* \W : every atom that is no box character, glyph, blank or punctuation
\* is a run of word characters
NonWord == BoxChars \cup Glyphs \cup Spaces \cup Puncts

DigitVal(a) ==
    CASE a = "0" -> 0 [] a = "1" -> 1 [] a = "2" -> 2 [] a = "3" -> 3
      [] a = "4" -> 4 [] a = "5" -> 5 [] a = "6" -> 6 [] a = "7" -> 7
      [] a = "8" -> 8 [] a = "9" -> 9

-----------------------------------------------------------------------------
(* String primitives                                                       *)

\* s.substring(n)
Drop(s, n) == SubSeq(s, n + 1, Len(s))

\* String.prototype.trim
Trim(s) ==
    LET keep == {k \in 1..Len(s) : ~IsSpace(s[k])}
    IN  IF keep = {} THEN <<>>
        ELSE LET lo == CHOOSE k \in keep : \A m \in keep : k <= m
                 hi == CHOOSE k \in keep : \A m \in keep : k >= m
             IN  SubSeq(s, lo, hi)

\* s.startsWith(pat)
StartsWith(s, pat) == Len(s) >= Len(pat) /\ SubSeq(s, 1, Len(pat)) = pat

\* s.includes(pat)
Includes(s, pat) ==
    \E k \in 1..(Len(s) - Len(pat) + 1) : SubSeq(s, k, k + Len(pat) - 1) = pat

\* s[k], or "EOL" past either end
At(s, k) == IF k \in 1..Len(s) THEN s[k] ELSE "EOL"

\* end of the longest run of atoms of class S that starts at position p
\* (p - 1 when s[p] is not in S): a greedy  [S]*  from p
RunEnd(s, p, S) ==
    IF p > Len(s) THEN p - 1
    ELSE CHOOSE e \in (p - 1)..Len(s) :
            /\ \A k \in p..e : s[k] \in S
            /\ (e = Len(s) \/ s[e + 1] \notin S)

\* the same for the class of the atoms that are not in S
RunEndNot(s, p, S) ==
    IF p > Len(s) THEN p - 1
    ELSE CHOOSE e \in (p - 1)..Len(s) :
            /\ \A k \in p..e : s[k] \notin S
            /\ (e = Len(s) \/ s[e + 1] \in S)

\* least and greatest element of a non-empty set of integers
Min(S) == CHOOSE x \in S : \A y \in S : x <= y
Max(S) == CHOOSE x \in S : \A y \in S : x >= y

\* obj.f = v on a JS object (a record whose fields may be absent)
SetField(r, f, v) == [x \in DOMAIN r \cup {f} |-> IF x = f THEN v ELSE r[x]]
Has(r, f) == f \in DOMAIN r

\* output.replace(/\r/g, '') seen line by line
RECURSIVE StripCR(_)
StripCR(s) ==
    IF s = <<>> THEN <<>>
    ELSE IF s[1] = "CR" THEN StripCR(Tail(s))
    ELSE <<s[1]>> \o StripCR(Tail(s))

\* StripTrailBox left out: the text keeps its trailing border characters
KeepTrailBox(s) == s

\* s.replace(/[│└┘]+$/g, '')
StripTrailBox(s) ==
    LET tail == {"BoxV", "BoxBL", "BoxBR"}
        keep == {k \in 1..Len(s) : s[k] \notin tail}
    IN  IF keep = {} THEN <<>>
        ELSE SubSeq(s, 1, CHOOSE k \in keep : \A m \in keep : k >= m)

\* 10^n
RECURSIVE Pow10(_)
Pow10(n) == IF n = 0 THEN 1 ELSE 10 * Pow10(n - 1)

\* value of a run of digit atoms
RECURSIVE DigitsVal(_)
DigitsVal(s) ==
    IF s = <<>> THEN 0
    ELSE 10 * DigitsVal(SubSeq(s, 1, Len(s) - 1)) + DigitVal(s[Len(s)])

NaN == [nan |-> TRUE, num |-> 0, den |-> 1]

\* parseInt(s): optional blanks, optional sign, then the leading digits;
\* NaN when there is no digit there.  The value is num / den with den = 1.
ParseInt(s) ==
    LET t == Trim(s)
        neg == t /= <<>> /\ t[1] = "-"
        u == IF t /= <<>> /\ t[1] \in {"-", "+"} THEN Drop(t, 1) ELSE t
        e == RunEnd(u, 1, Digits)
    IN  IF e = 0 THEN NaN
        ELSE [nan |-> FALSE,
              num |-> IF neg THEN 0 - DigitsVal(SubSeq(u, 1, e))
                      ELSE DigitsVal(SubSeq(u, 1, e)),
              den |-> 1]

\* parseFloat(s) for a text of digits and dots: the longest prefix
\* digits [. digits] that holds a digit; NaN when there is none.
\* The value is num / den.
ParseFloat(s) ==
    LET e1 == RunEnd(s, 1, Digits)
        dot == e1 < Len(s) /\ s[e1 + 1] = "."
        e2 == IF dot THEN RunEnd(s, e1 + 2, Digits) ELSE e1
        frac == IF dot THEN SubSeq(s, e1 + 2, e2) ELSE <<>>
    IN  IF e1 = 0 /\ frac = <<>> THEN NaN
        ELSE [nan |-> FALSE,
              num |-> DigitsVal(SubSeq(s, 1, e1)) * Pow10(Len(frac)) + DigitsVal(frac),
              den |-> Pow10(Len(frac))]

\* String.prototype.toLowerCase on the two kind words
ToLowerCase(a) ==
    CASE a = "FUNCTION" -> "function" [] a = "CLASS" -> "class" [] OTHER -> a

-----------------------------------------------------------------------------
(* parseSearchOutput                                                       *)

NoMatch == [matched |-> FALSE]

\* line.match(/(\d+)\.\s+(FUNCTION|CLASS):\s+(\w+)/)
HeaderAt(line, p) ==
    LET d == RunEnd(line, p, Digits)
        sp == RunEnd(line, d + 2, Spaces)
        sp2 == RunEnd(line, sp + 3, Spaces)
        w == RunEndNot(line, sp2 + 1, NonWord)
    IN  IF /\ d >= p
           /\ At(line, d + 1) = "."
           /\ sp >= d + 2
           /\ At(line, sp + 1) \in {"FUNCTION", "CLASS"}
           /\ At(line, sp + 2) = ":"
           /\ sp2 >= sp + 3
           /\ w >= sp2 + 1
        THEN [matched |-> TRUE, kind |-> line[sp + 1],
              name |-> SubSeq(line, sp2 + 1, w)]
        ELSE NoMatch

HeaderMatch(line) ==
    LET ps == {p \in 1..Len(line) : HeaderAt(line, p).matched}
    IN  IF ps = {} THEN NoMatch ELSE HeaderAt(line, Min(ps))

\* the tail  :(\d+)-(\d+)  right after position q
LineRangeAfter(s, q) ==
    LET d1 == RunEnd(s, q + 2, Digits)
        d2 == RunEnd(s, d1 + 2, Digits)
    IN  IF /\ At(s, q + 1) = ":"
           /\ d1 >= q + 2
           /\ At(s, d1 + 1) = "-"
           /\ d2 >= d1 + 2
        THEN [matched |-> TRUE, startDigits |-> SubSeq(s, q + 2, d1),
              endDigits |-> SubSeq(s, d1 + 2, d2)]
        ELSE NoMatch

\* s.match(/(.+?):(\d+)-(\d+)/) with the lazy group starting at g:
\* the shortest non-empty group the tail follows
LazyPathFrom(s, g) ==
    LET qs == {q \in g..Len(s) : LineRangeAfter(s, q).matched}
    IN  IF qs = {} THEN NoMatch
        ELSE LET q == Min(qs)
                 t == LineRangeAfter(s, q)
             IN  [matched |-> TRUE, path |-> SubSeq(s, g, q),
                  startDigits |-> t.startDigits, endDigits |-> t.endDigits]

\* line.match(/📄\s+(.+?):(\d+)-(\d+)/) tried at the glyph at p: \s+ takes
\* the whole run of blanks and gives blanks back only when nothing
\* matches otherwise
FileAt(line, p) ==
    LET e == RunEnd(line, p + 1, Spaces)
        ks == {k \in (p + 1)..e : LazyPathFrom(line, k + 1).matched}
    IN  IF At(line, p) = "Pin" /\ ks /= {}
        THEN LazyPathFrom(line, Max(ks) + 1)
        ELSE NoMatch

FileMatch(line) ==
    LET ps == {p \in 1..Len(line) : FileAt(line, p).matched}
    IN  IF ps = {} THEN NoMatch ELSE FileAt(line, Min(ps))

\* [\d.]
DigitsOrDot == Digits \cup {"."}

\* line.match(/📊\s+Similarity:\s+([\d.]+)/)
SimAt(line, p) ==
    LET e == RunEnd(line, p + 1, Spaces)
        e2 == RunEnd(line, e + 3, Spaces)
        r == RunEnd(line, e2 + 1, DigitsOrDot)
    IN  IF /\ At(line, p) = "Chart"
           /\ e >= p + 1
           /\ At(line, e + 1) = "Similarity"
           /\ At(line, e + 2) = ":"
           /\ e2 >= e + 3
           /\ r >= e2 + 1
        THEN [matched |-> TRUE, text |-> SubSeq(line, e2 + 1, r)]
        ELSE NoMatch

SimMatch(line) ==
    LET ps == {p \in 1..Len(line) : SimAt(line, p).matched}
    IN  IF ps = {} THEN NoMatch ELSE SimAt(line, Min(ps))

\* line.match(/📝\s+(.+)/): the group is the rest of the line after the
\* blanks, or the last blank when the blanks end the line
DocMatch(line) ==
    LET ps == {p \in 1..Len(line) :
                 /\ line[p] = "Memo"
                 /\ IsSpace(At(line, p + 1))
                 /\ Len(line) >= p + 2}
    IN  IF ps = {} THEN NoMatch
        ELSE LET p == Min(ps)
                 e == RunEnd(line, p + 1, Spaces)
             IN  [matched |-> TRUE,
                  text |-> IF e < Len(line) THEN Drop(line, e)
                           ELSE Drop(line, e - 1)]

\* SearchStep whose header branch starts the next record without pushing
\* the one in progress (lines 225-227 left out)
SearchStepNoFlush(st, line) ==
    LET h == HeaderMatch(line)
        f == FileMatch(line)
        s == SimMatch(line)
        d == DocMatch(line)
        c == st.currentResult
    IN  IF h.matched
        THEN [results |-> st.results,
              currentResult |-> [type |-> ToLowerCase(h.kind), name |-> h.name]]
        ELSE IF c = Null THEN st
        ELSE IF f.matched
        THEN [st EXCEPT !.currentResult =
                SetField(SetField(SetField(c,
                    "file_path", Trim(StripTrailBox(Trim(f.path)))),
                    "start_line", ParseInt(f.startDigits)),
                    "end_line", ParseInt(f.endDigits))]
        ELSE IF s.matched
        THEN [st EXCEPT !.currentResult = SetField(c, "similarity", ParseFloat(s.text))]
        ELSE IF d.matched
        THEN [st EXCEPT !.currentResult =
                SetField(c, "docstring", Trim(StripTrailBox(Trim(d.text))))]
        ELSE st

\* SearchStep with each marker assigning its fields only when the record
\* has none yet (the first marker line wins)
SearchStepKeepFirst(st, line) ==
    LET h == HeaderMatch(line)
        f == FileMatch(line)
        s == SimMatch(line)
        d == DocMatch(line)
        c == st.currentResult
    IN  IF h.matched
        THEN [results |-> IF c /= Null THEN Append(st.results, c) ELSE st.results,
              currentResult |-> [type |-> ToLowerCase(h.kind), name |-> h.name]]
        ELSE IF c = Null THEN st
        ELSE IF f.matched
        THEN IF Has(c, "file_path") THEN st
             ELSE [st EXCEPT !.currentResult =
                     SetField(SetField(SetField(c,
                         "file_path", Trim(StripTrailBox(Trim(f.path)))),
                         "start_line", ParseInt(f.startDigits)),
                         "end_line", ParseInt(f.endDigits))]
        ELSE IF s.matched
        THEN IF Has(c, "similarity") THEN st
             ELSE [st EXCEPT !.currentResult = SetField(c, "similarity", ParseFloat(s.text))]
        ELSE IF d.matched
        THEN IF Has(c, "docstring") THEN st
             ELSE [st EXCEPT !.currentResult =
                     SetField(c, "docstring", Trim(StripTrailBox(Trim(d.text))))]
        ELSE st

\* one iteration of the for loop of parseSearchOutput on `line`
SearchStep(st, line) ==
    LET h == HeaderMatch(line)
        f == FileMatch(line)
        s == SimMatch(line)
        d == DocMatch(line)
        c == st.currentResult
    IN  IF h.matched
        THEN [results |-> IF c /= Null THEN Append(st.results, c) ELSE st.results,
              currentResult |-> [type |-> ToLowerCase(h.kind), name |-> h.name]]
        ELSE IF c = Null THEN st
        ELSE IF f.matched
        THEN [st EXCEPT !.currentResult =
                SetField(SetField(SetField(c,
                    "file_path", Trim(StripTrailBox(Trim(f.path)))),
                    "start_line", ParseInt(f.startDigits)),
                    "end_line", ParseInt(f.endDigits))]
        ELSE IF s.matched
        THEN [st EXCEPT !.currentResult = SetField(c, "similarity", ParseFloat(s.text))]
        ELSE IF d.matched
        THEN [st EXCEPT !.currentResult =
                SetField(c, "docstring", Trim(StripTrailBox(Trim(d.text))))]
        ELSE st

\* SearchFinish without the final push of lines 265-267
SearchFinishNoPush(st) == st

\* after the loop: push the open record and return results
SearchFinish(st) ==
    [results |-> IF st.currentResult /= Null
                 THEN Append(st.results, st.currentResult) ELSE st.results,
     currentResult |-> st.currentResult]

SearchInit == [results |-> <<>>, currentResult |-> Null]

-----------------------------------------------------------------------------
(* parseRagOutput                                                          *)

AnswerLit == <<"Answer", ":">>
QueryLit == <<"Query", ":">>
RagQueryLit == <<"Code", " ", "Search", " ", "-", " ", "RAG", " ", "Mode", " ", "Query", ":">>
SourcesLit == <<"Supporting", " ", "Sources">>

\* content.match(/^[─┌┐└┘]+$/)
IsBorderOnly(s) ==
    s /= <<>> /\ \A k \in 1..Len(s) : s[k] \in {"BoxH", "BoxTL", "BoxTR", "BoxBL", "BoxBR"}

\* line.match(/^└[─]+┘/)
IsBottomBorder(line) ==
    LET h == RunEnd(line, 2, {"BoxH"})
    IN  At(line, 1) = "BoxBL" /\ h >= 2 /\ At(line, h + 1) = "BoxBR"

\* line.match(/^┌[─]+/)
IsTopBorder(line) == At(line, 1) = "BoxTL" /\ At(line, 2) = "BoxH"

\* the tail  \s+[─]+┐  right after position q
BoxTitleTailAfter(s, q) ==
    LET e == RunEnd(s, q + 1, Spaces)
        h == RunEnd(s, e + 1, {"BoxH"})
    IN  e >= q + 1 /\ h >= e + 1 /\ At(s, h + 1) = "BoxTR"

\* line.match(/^┌[─]+\s*(\d+)\.\s+(FUNCTION|CLASS):\s+(.+?)\s+[─]+┐/)
BoxStartMatch(line) ==
    LET h == RunEnd(line, 2, {"BoxH"})
        sp0 == RunEnd(line, h + 1, Spaces)
        d == RunEnd(line, sp0 + 1, Digits)
        sp == RunEnd(line, d + 2, Spaces)
        sp2 == RunEnd(line, sp + 3, Spaces)
        \* \s+ before the name gives blanks back only when needed
        gs == {g \in (sp + 4)..(sp2 + 1) :
                 \E q \in g..Len(line) : BoxTitleTailAfter(line, q)}
    IN  IF /\ At(line, 1) = "BoxTL"
           /\ h >= 2
           /\ d >= sp0 + 1
           /\ At(line, d + 1) = "."
           /\ sp >= d + 2
           /\ At(line, sp + 1) \in {"FUNCTION", "CLASS"}
           /\ At(line, sp + 2) = ":"
           /\ gs /= {}
        THEN LET g == Max(gs)
                 q == Min({x \in g..Len(line) : BoxTitleTailAfter(line, x)})
             IN  [matched |-> TRUE, kind |-> line[sp + 1], name |-> SubSeq(line, g, q)]
        ELSE NoMatch

\* the tail  \s*│  right after position q
BarTailAfter(s, q) == At(s, RunEnd(s, q + 1, Spaces) + 1) = "BoxV"

\* the lazy group (.+?) followed by \s*│ , the group starting no earlier
\* than lo and no later than hi (blanks before it are given back last)
LazyUntilBar(s, lo, hi) ==
    LET gs == {g \in lo..hi : \E q \in g..Len(s) : BarTailAfter(s, q)}
    IN  IF gs = {} THEN NoMatch
        ELSE LET g == Max(gs)
                 q == Min({x \in g..Len(s) : BarTailAfter(s, x)})
             IN  [matched |-> TRUE, text |-> SubSeq(s, g, q)]

\* line.match(/│\s*📄\s*(.+?)\s*│/) tried at the bar at p
PathAt(line, p) ==
    LET e == RunEnd(line, p + 1, Spaces)
        e2 == RunEnd(line, e + 2, Spaces)
    IN  IF At(line, p) = "BoxV" /\ At(line, e + 1) = "Pin"
        THEN LazyUntilBar(line, e + 2, e2 + 1)
        ELSE NoMatch

PathMatch(line) ==
    LET ps == {p \in 1..Len(line) : PathAt(line, p).matched}
    IN  IF ps = {} THEN NoMatch ELSE PathAt(line, Min(ps))

\* line.match(/│\s*(.+?)\s*│/) tried at the bar at p
PathLineAt(line, p) ==
    LET e == RunEnd(line, p + 1, Spaces)
    IN  IF At(line, p) = "BoxV" THEN LazyUntilBar(line, p + 1, e + 1) ELSE NoMatch

PathLineMatch(line) ==
    LET ps == {p \in 1..Len(line) : PathLineAt(line, p).matched}
    IN  IF ps = {} THEN NoMatch ELSE PathLineAt(line, Min(ps))

\* line.match(/│\s*📊\s+Similarity:\s+([\d.]+)\s*│/) tried at the bar at p
RagSimAt(line, p) ==
    LET e == RunEnd(line, p + 1, Spaces)
        e2 == RunEnd(line, e + 2, Spaces)
        e3 == RunEnd(line, e2 + 3, Spaces)
        r == RunEnd(line, e3 + 1, DigitsOrDot)
    IN  IF /\ At(line, p) = "BoxV"
           /\ At(line, e + 1) = "Chart"
           /\ e2 >= e + 2
           /\ At(line, e2 + 1) = "Similarity"
           /\ At(line, e2 + 2) = ":"
           /\ e3 >= e2 + 3
           /\ r >= e3 + 1
           /\ BarTailAfter(line, r)
        THEN [matched |-> TRUE, text |-> SubSeq(line, e3 + 1, r)]
        ELSE NoMatch

RagSimMatch(line) ==
    LET ps == {p \in 1..Len(line) : RagSimAt(line, p).matched}
    IN  IF ps = {} THEN NoMatch ELSE RagSimAt(line, Min(ps))

\* line.match(/│\s*📝\s+(.+?)\s*│/) tried at the bar at p
RagDocAt(line, p) ==
    LET e == RunEnd(line, p + 1, Spaces)
        e2 == RunEnd(line, e + 2, Spaces)
    IN  IF At(line, p) = "BoxV" /\ At(line, e + 1) = "Memo" /\ e2 >= e + 2
        THEN LazyUntilBar(line, e + 3, e2 + 1)
        ELSE NoMatch

RagDocMatch(line) ==
    LET ps == {p \in 1..Len(line) : RagDocAt(line, p).matched}
    IN  IF ps = {} THEN NoMatch ELSE RagDocAt(line, Min(ps))

\* s.replace(/^│\s*/, '')
StripLeadBar(s) ==
    IF At(s, 1) = "BoxV" THEN Drop(s, RunEnd(s, 2, Spaces)) ELSE s

\* s.replace(/\s*│$/, '')
StripTrailBar(s) ==
    IF s /= <<>> /\ s[Len(s)] = "BoxV"
    THEN LET body == SubSeq(s, 1, Len(s) - 1)
             keep == {k \in 1..Len(body) : ~IsSpace(body[k])}
         IN  IF keep = {} THEN <<>> ELSE SubSeq(body, 1, Max(keep))
    ELSE s

\* codeLines.join('\n') , filePathLines.join('')
RECURSIVE Join(_, _)
Join(ss, sep) ==
    IF ss = <<>> THEN <<>>
    ELSE IF Len(ss) = 1 THEN ss[1]
    ELSE ss[1] \o sep \o Join(Tail(ss), sep)

RagInit ==
    [answer |-> <<>>, sources |-> <<>>, currentSource |-> Null,
     inAnswerSection |-> FALSE, inSourcesSection |-> FALSE,
     inSourceBox |-> FALSE, collectingCode |-> FALSE, codeLines |-> <<>>,
     collectingFilePath |-> FALSE, filePathLines |-> <<>>,
     back |-> FALSE, threw |-> FALSE]

\* currentSource with code_snippet attached when code lines are pending
WithSnippet(st) ==
    IF st.codeLines /= <<>>
    THEN SetField(st.currentSource, "code_snippet", Join(st.codeLines, <<"LF">>))
    ELSE st.currentSource

\* RagBoxStart with the flush of lines 408-416 (which ends with
\* currentSource = null) run after the new source was created
RagBoxStartNulls(st, m) ==
    LET flush == st.currentSource /= Null /\ st.collectingCode
    IN  [st EXCEPT
           !.sources = IF flush THEN Append(@, WithSnippet(st)) ELSE @,
           !.codeLines = IF flush THEN <<>> ELSE @,
           !.collectingCode = IF flush THEN FALSE ELSE @,
           !.currentSource = IF flush THEN Null
                             ELSE [type |-> ToLowerCase(m.kind), name |-> Trim(m.name)],
           !.inSourceBox = TRUE,
           !.collectingFilePath = FALSE,
           !.filePathLines = <<>>]

\* lines 317-337: a header top border opens a source box; the previous
\* source is pushed first when it was collecting code
\* RagBoxStart pushing every previous record (if (currentSource))
RagBoxStartFlushAny(st, m) ==
    LET flush == st.currentSource /= Null
    IN  [st EXCEPT
           !.sources = IF flush THEN Append(@, WithSnippet(st)) ELSE @,
           !.codeLines = IF flush THEN <<>> ELSE @,
           !.collectingCode = IF flush THEN FALSE ELSE @,
           !.currentSource = [type |-> ToLowerCase(m.kind), name |-> Trim(m.name)],
           !.inSourceBox = TRUE,
           !.collectingFilePath = FALSE,
           !.filePathLines = <<>>]

\* RagBoxStart whose flush leaves the code buffer as it is
RagBoxStartKeepsCode(st, m) ==
    LET flush == st.currentSource /= Null /\ st.collectingCode
    IN  [st EXCEPT
           !.sources = IF flush THEN Append(@, WithSnippet(st)) ELSE @,
           !.collectingCode = IF flush THEN FALSE ELSE @,
           !.currentSource = [type |-> ToLowerCase(m.kind), name |-> Trim(m.name)],
           !.inSourceBox = TRUE,
           !.collectingFilePath = FALSE,
           !.filePathLines = <<>>]

RagBoxStart(st, m) ==
    LET flush == st.currentSource /= Null /\ st.collectingCode
    IN  [st EXCEPT
           !.sources = IF flush THEN Append(@, WithSnippet(st)) ELSE @,
           !.codeLines = IF flush THEN <<>> ELSE @,
           !.collectingCode = IF flush THEN FALSE ELSE @,
           !.currentSource = [type |-> ToLowerCase(m.kind), name |-> Trim(m.name)],
           !.inSourceBox = TRUE,
           !.collectingFilePath = FALSE,
           !.filePathLines = <<>>]

\* lines 342-353: the 📄 line starts the collection of path fragments
RagPathStart(st, line) ==
    LET m == PathMatch(line)
        pathContent == IF m.matched THEN Trim(m.text) ELSE <<>>
    IN  [st EXCEPT
           !.collectingFilePath = TRUE,
           !.filePathLines = IF pathContent /= <<>> THEN Append(@, pathContent) ELSE @]

\* RagPathContinue testing the new fragment alone (content.match) instead
\* of the joined fragments (fullPath.match)
RagPathContinueLastOnly(st, line) ==
    LET m == PathLineMatch(line)
        content == IF m.matched THEN Trim(m.text) ELSE <<>>
        take == /\ content /= <<>>
                /\ ~IsBorderOnly(content)
                /\ ~Includes(content, <<"Chart">>)
                /\ ~Includes(content, <<"Memo">>)
        frags == Append(st.filePathLines, content)
        completeMatch == LazyPathFrom(content, 1)
    IN  IF ~take THEN st
        ELSE IF ~completeMatch.matched THEN [st EXCEPT !.filePathLines = frags]
        ELSE IF st.currentSource = Null THEN [st EXCEPT !.threw = TRUE]
        ELSE [st EXCEPT
                !.currentSource =
                    SetField(SetField(SetField(@,
                        "file_path", Trim(completeMatch.path)),
                        "start_line", ParseInt(completeMatch.startDigits)),
                        "end_line", ParseInt(completeMatch.endDigits)),
                !.collectingFilePath = FALSE,
                !.filePathLines = <<>>]

\* lines 356-376: one more interior line while the path is incomplete
RagPathContinue(st, line) ==
    LET m == PathLineMatch(line)
        content == IF m.matched THEN Trim(m.text) ELSE <<>>
        take == /\ content /= <<>>
                /\ ~IsBorderOnly(content)
                /\ ~Includes(content, <<"Chart">>)
                /\ ~Includes(content, <<"Memo">>)
        frags == Append(st.filePathLines, content)
        completeMatch == LazyPathFrom(Join(frags, <<>>), 1)
    IN  IF ~take THEN st
        ELSE IF ~completeMatch.matched THEN [st EXCEPT !.filePathLines = frags]
        ELSE IF st.currentSource = Null THEN [st EXCEPT !.threw = TRUE]
        ELSE [st EXCEPT
                !.currentSource =
                    SetField(SetField(SetField(@,
                        "file_path", Trim(completeMatch.path)),
                        "start_line", ParseInt(completeMatch.startDigits)),
                        "end_line", ParseInt(completeMatch.endDigits)),
                !.collectingFilePath = FALSE,
                !.filePathLines = <<>>]

\* lines 340-399: an interior or bottom line of the open source box
RagInBox(st, line) ==
    LET sim == RagSimMatch(line)
        doc == RagDocMatch(line)
    IN  IF Includes(line, <<"Pin">>) /\ ~st.collectingFilePath
        THEN RagPathStart(st, line)
        ELSE IF st.collectingFilePath THEN RagPathContinue(st, line)
        ELSE IF sim.matched /\ st.currentSource /= Null
        THEN [st EXCEPT !.currentSource = SetField(@, "similarity", ParseFloat(sim.text))]
        ELSE IF doc.matched /\ st.currentSource /= Null
        THEN [st EXCEPT !.currentSource = SetField(@, "docstring", Trim(doc.text))]
        ELSE IF IsBottomBorder(line)
        THEN [st EXCEPT !.inSourceBox = FALSE, !.collectingCode = TRUE,
                        !.collectingFilePath = FALSE]
        ELSE st

\* RagPushBack leaving the pushed record as the current one
RagPushBackKeepsSource(st) ==
    IF st.currentSource /= Null
    THEN [st EXCEPT !.sources = Append(@, WithSnippet(st)), !.codeLines = <<>>,
                    !.collectingCode = FALSE, !.back = TRUE]
    ELSE [st EXCEPT !.back = TRUE]

\* RagPushBack leaving collectingCode as it is
RagPushBackKeepsCollecting(st) ==
    IF st.currentSource /= Null
    THEN [st EXCEPT !.sources = Append(@, WithSnippet(st)),
                    !.codeLines = <<>>,
                    !.currentSource = Null,
                    !.back = TRUE]
    ELSE [st EXCEPT !.back = TRUE]

\* lines 406-418: a top border without a header ends the code collection;
\* the line is read again (i--)
RagPushBack(st) ==
    IF st.currentSource /= Null
    THEN [st EXCEPT !.sources = Append(@, WithSnippet(st)),
                    !.codeLines = <<>>,
                    !.collectingCode = FALSE,
                    !.currentSource = Null,
                    !.back = TRUE]
    ELSE [st EXCEPT !.back = TRUE]

\* RagCollect pushing the trimmed line (codeLines.push(trimmed))
RagCollectTrimmed(st, line, trimmed) ==
    IF IsTopBorder(line) \/ (trimmed = <<>> /\ st.codeLines /= <<>>)
    THEN IF IsTopBorder(line) THEN RagPushBack(st) ELSE st
    ELSE IF trimmed /= <<>> THEN [st EXCEPT !.codeLines = Append(@, trimmed)]
    ELSE st

\* lines 402-422: after a closed source box
RagCollect(st, line, trimmed) ==
    IF IsTopBorder(line) \/ (trimmed = <<>> /\ st.codeLines /= <<>>)
    THEN IF IsTopBorder(line) THEN RagPushBack(st) ELSE st
    ELSE IF trimmed /= <<>> THEN [st EXCEPT !.codeLines = Append(@, line)]
    ELSE st

\* lines 314-425: the sources section
RagSources(st, line, trimmed) ==
    LET m == BoxStartMatch(line)
    IN  IF m.matched THEN RagBoxStart(st, m)
        ELSE IF st.inSourceBox THEN RagInBox(st, line)
        ELSE IF st.collectingCode THEN RagCollect(st, line, trimmed)
        ELSE st

\* RagAnswer without the separating space (answer += content)
RagAnswerNoSpace(st, line) ==
    LET content == Trim(StripTrailBar(StripLeadBar(line)))
    IN  [st EXCEPT
           !.answer = IF content /= <<>> /\ ~IsBorderOnly(content) /\ content /= AnswerLit
                      THEN @ \o content ELSE @,
           !.inAnswerSection = IF IsBottomBorder(line) THEN FALSE ELSE @]

\* lines 428-441: one line of the answer box
RagAnswer(st, line) ==
    LET content == Trim(StripTrailBar(StripLeadBar(line)))
    IN  [st EXCEPT
           !.answer = IF content /= <<>> /\ ~IsBorderOnly(content) /\ content /= AnswerLit
                      THEN @ \o content \o <<" ">> ELSE @,
           !.inAnswerSection = IF IsBottomBorder(line) THEN FALSE ELSE @]

\* one iteration of the for loop of parseRagOutput on `line`
RagStep(st0, line) ==
    LET st == [st0 EXCEPT !.back = FALSE]
        trimmed == Trim(line)
    IN  IF trimmed = <<>> /\ ~st.collectingCode THEN st
        ELSE IF /\ Includes(trimmed, <<"Bulb">>) \/ Includes(trimmed, AnswerLit)
                /\ ~st.inSourcesSection
        THEN [st EXCEPT !.inAnswerSection = TRUE]
        ELSE IF StartsWith(trimmed, RagQueryLit) \/ StartsWith(trimmed, QueryLit)
        THEN st
        ELSE IF Includes(trimmed, SourcesLit)
        THEN [st EXCEPT !.inAnswerSection = FALSE, !.inSourcesSection = TRUE]
        ELSE IF st.inSourcesSection THEN RagSources(st, line, trimmed)
        ELSE IF st.inAnswerSection THEN RagAnswer(st, line)
        ELSE st

\* RagFinish pushing every open record (if (currentSource))
RagFinishAnyOpen(st) ==
    [st EXCEPT
       !.sources = IF st.currentSource /= Null THEN Append(@, WithSnippet(st)) ELSE @,
       !.currentSource = IF st.currentSource /= Null THEN WithSnippet(st) ELSE @,
       !.answer = Trim(@)]

\* lines 444-455: after the loop
RagFinish(st) ==
    [st EXCEPT
       !.sources = IF st.currentSource /= Null /\ Has(st.currentSource, "file_path")
                      /\ st.currentSource.file_path /= <<>>
                   THEN Append(@, WithSnippet(st)) ELSE @,
       !.currentSource = IF st.currentSource /= Null /\ Has(st.currentSource, "file_path")
                            /\ st.currentSource.file_path /= <<>>
                         THEN WithSnippet(st) ELSE @,
       !.answer = Trim(@)]

-----------------------------------------------------------------------------
(* _parsePRSummary                                                         *)

BranchLit == <<"Branch", ":">>
\* CommitsLit as 'Commits', the colon left to substring's offset
CommitsLitNoColon == <<"Commits">>
CommitsLit == <<"Commits", ":">>
ChangedFilesLit == <<"Changed", " ", "files", ":">>
OverallLit == <<"Memo", " ", "Overall", " ", "PR", " ", "Summary", ":">>
PipelineLit == <<"PR", " ", "SUMMARIZATION", " ", "PIPELINE">>
WarnLit == <<"Warn">>
UnknownFile == <<"Unknown", " ", "file">>

\* [0-9a-f]{8}: the atoms that are runs of eight hex digits
Hash8 == {"a1b2c3d4", "deadbeef"}

\* trimmed.match(/^=+$/)
IsSeparator(s) == s /= <<>> /\ \A k \in 1..Len(s) : s[k] = "="

\* trimmed.match(/^•\s+[0-9a-f]{8}\s+-/)
IsCommitLine(s) ==
    LET e == RunEnd(s, 2, Spaces)
        e2 == RunEnd(s, e + 2, Spaces)
    IN  /\ At(s, 1) = "Bullet"
        /\ e >= 2
        /\ At(s, e + 1) \in Hash8
        /\ e2 >= e + 2
        /\ At(s, e2 + 1) = "-"

\* the tail  \s+─*┐  right after position q
FileBoxTailAfter(s, q) ==
    LET e == RunEnd(s, q + 1, Spaces)
        h == RunEnd(s, e + 1, {"BoxH"})
    IN  e >= q + 1 /\ At(s, h + 1) = "BoxTR"

\* trimmed.match(/^┌.*🔹\s+(.+?)\s+─*┐/)
IsFileBoxTop(s) ==
    /\ At(s, 1) = "BoxTL"
    /\ \E p \in 2..Len(s) :
          /\ s[p] = "Diamond"
          /\ \E g \in (p + 2)..(RunEnd(s, p + 1, Spaces) + 1) :
                \E q \in g..Len(s) : FileBoxTailAfter(s, q)

\* the tail  \s+─  right after position q
NameTailAfter(s, q) ==
    LET e == RunEnd(s, q + 1, Spaces)
    IN  e >= q + 1 /\ At(s, e + 1) = "BoxH"

\* trimmed.match(/🔹\s+(.+?)\s+─/) tried at the glyph at p
FileNameAt(s, p) ==
    LET gs == {g \in (p + 2)..(RunEnd(s, p + 1, Spaces) + 1) :
                 \E q \in g..Len(s) : NameTailAfter(s, q)}
    IN  IF At(s, p) = "Diamond" /\ gs /= {}
        THEN LET g == Max(gs)
                 q == Min({x \in g..Len(s) : NameTailAfter(s, x)})
             IN  [matched |-> TRUE, text |-> SubSeq(s, g, q)]
        ELSE NoMatch

FileNameMatch(s) ==
    LET ps == {p \in 1..Len(s) : FileNameAt(s, p).matched}
    IN  IF ps = {} THEN NoMatch ELSE FileNameAt(s, Min(ps))

\* trimmed.match(/^[┌└─│]+$/)
IsPrBorderOnly(s) ==
    s /= <<>> /\ \A k \in 1..Len(s) : s[k] \in {"BoxTL", "BoxBL", "BoxH", "BoxV"}

\* IsProgressTag for /^\[\d+\]/ : the slash and the total are left out
IsProgressTagNoSlash(s) ==
    LET d1 == RunEnd(s, 2, Digits)
    IN  At(s, 1) = "[" /\ d1 >= 2 /\ At(s, d1 + 1) = "]"

\* trimmed.match(/^\[\d+\/\d+\]/)
IsProgressTag(s) ==
    LET d1 == RunEnd(s, 2, Digits)
        d2 == RunEnd(s, d1 + 2, Digits)
    IN  /\ At(s, 1) = "["
        /\ d1 >= 2
        /\ At(s, d1 + 1) = "/"
        /\ d2 >= d1 + 2
        /\ At(s, d2 + 1) = "]"

\* parseInt(text) || 0
IntOrZero(s) == LET n == ParseInt(s) IN IF n.nan THEN 0 ELSE n.num

PrInit ==
    [meta |-> [branch |-> <<>>, commits |-> 0, changedFiles |-> 0],
     commitHistory |-> <<>>, fileChanges |-> <<>>, overallSummary |-> <<>>,
     pipelineInfo |-> <<>>, warnings |-> <<>>,
     currentSection |-> "header", currentFileChange |-> Null,
     fileChangeContent |-> <<>>]

\* lines 687-704: a file box top border
PrFileBoxTop(st, trimmed) ==
    LET fileMatch == FileNameMatch(trimmed)
        filename == IF fileMatch.matched THEN Trim(fileMatch.text) ELSE UnknownFile
    IN  [st EXCEPT
           !.fileChanges =
               IF st.currentFileChange /= Null
               THEN Append(@, [st.currentFileChange EXCEPT
                                 !.content = Trim(st.fileChangeContent)])
               ELSE @,
           !.currentFileChange = [filename |-> filename, content |-> <<>>],
           !.fileChangeContent = <<>>,
           !.currentSection = "fileChange"]

\* lines 706-712: an interior line of the file box
PrFileBoxLine(st, line) ==
    LET content == Trim(StripTrailBar(StripLeadBar(line)))
    IN  [st EXCEPT !.fileChangeContent =
                      IF content /= <<>> THEN @ \o content \o <<" ">> ELSE @]

\* lines 714-722: the bottom border of the file box
PrFileBoxEnd(st) ==
    [st EXCEPT
       !.fileChanges =
           IF st.currentFileChange /= Null
           THEN Append(@, [st.currentFileChange EXCEPT
                             !.content = Trim(st.fileChangeContent)])
           ELSE @,
       !.currentFileChange = Null,
       !.fileChangeContent = IF st.currentFileChange /= Null THEN <<>> ELSE @,
       !.currentSection = "between"]

\* one iteration of the for loop of _parsePRSummary on `line`
PrStep(st, line) ==
    LET trimmed == Trim(line)
    IN  IF trimmed = <<>> \/ IsSeparator(trimmed) THEN st
        ELSE IF StartsWith(trimmed, BranchLit)
        THEN [st EXCEPT !.meta.branch = Trim(Drop(trimmed, Len(BranchLit)))]
        ELSE IF StartsWith(trimmed, CommitsLit)
        THEN [st EXCEPT !.meta.commits = IntOrZero(Trim(Drop(trimmed, Len(CommitsLit))))]
        ELSE IF StartsWith(trimmed, ChangedFilesLit)
        THEN [st EXCEPT !.meta.changedFiles =
                           IntOrZero(Trim(Drop(trimmed, Len(ChangedFilesLit))))]
        ELSE IF IsCommitLine(trimmed)
        THEN [st EXCEPT !.commitHistory = Append(@, trimmed)]
        ELSE IF IsFileBoxTop(trimmed) THEN PrFileBoxTop(st, trimmed)
        ELSE IF st.currentSection = "fileChange" /\ At(line, 1) = "BoxV"
        THEN PrFileBoxLine(st, line)
        ELSE IF st.currentSection = "fileChange" /\ At(line, 1) = "BoxBL"
        THEN PrFileBoxEnd(st)
        ELSE IF StartsWith(trimmed, OverallLit)
        THEN [st EXCEPT !.currentSection = "overallSummary"]
        ELSE IF st.currentSection = "overallSummary" /\ ~IsPrBorderOnly(trimmed)
        THEN [st EXCEPT !.overallSummary = @ \o trimmed \o <<" ">>]
        ELSE IF Includes(trimmed, PipelineLit) \/ IsProgressTag(trimmed)
        THEN [st EXCEPT !.currentSection = "pipeline",
                        !.pipelineInfo = @ \o trimmed \o <<"LF">>]
        ELSE IF st.currentSection = "pipeline"
        THEN [st EXCEPT !.pipelineInfo = @ \o trimmed \o <<"LF">>]
        ELSE IF StartsWith(trimmed, WarnLit)
        THEN [st EXCEPT !.warnings = Append(@, trimmed)]
        ELSE st

\* PrFinish pushing the record still open at the end of the input
PrFinishFlush(st) ==
    [st EXCEPT !.overallSummary = Trim(@), !.pipelineInfo = Trim(@),
               !.fileChanges =
                   IF st.currentFileChange /= Null
                   THEN Append(@, [st.currentFileChange EXCEPT
                                     !.content = Trim(st.fileChangeContent)])
                   ELSE @]

\* lines 744-748: after the loop
PrFinish(st) ==
    [st EXCEPT !.overallSummary = Trim(@), !.pipelineInfo = Trim(@)]

-----------------------------------------------------------------------------
(* executeCLI and its callers searchCodeHyde, searchCodeRag, summarizePR   *)

TracebackLit == <<"Traceback (most recent call last):">>
UnknownErrorLit == <<"Unknown error">>
UndefinedLit == <<"undefined">>

\* a || b on strings: the empty string is falsy
OrElse(a, b) == IF a /= <<>> THEN a ELSE b

\* CloseSuccess written !code: a null exit code counts as success
CloseSuccessNotCode(code) == code /= "1"

\* success: code === 0
CloseSuccess(code) == code = "0"

\* the CLIResult the 'error' handler resolves with (lines 81-88)
ErrorResult(c) ==
    [success |-> FALSE, stdout |-> c.stdout, stderr |-> c.stderr,
     error |-> <<"spawn ENOENT">>]

\* the CLIResult the 'close' handler resolves with (lines 90-96);
\* error is undefined, which error?.message turns into undefined
CloseResult(c, code) ==
    [success |-> CloseSuccess(code), stdout |-> c.stdout, stderr |-> c.stderr,
     error |-> <<>>]

\* resolve(v) where every call replaces the settled value
ResolveLast(c, v) == [c EXCEPT !.settled = TRUE, !.result = v]

\* resolve(v): only the first call settles the promise
Resolve(c, v) ==
    IF c.settled THEN c ELSE [c EXCEPT !.settled = TRUE, !.result = v]

\* result.stderr || result.stdout || result.error?.message || 'Unknown error'
ErrorOutput(r) == OrElse(r.stderr, OrElse(r.stdout, OrElse(r.error, UnknownErrorLit)))

\* errorOutput.match(/Traceback \(most recent call last\):[\s\S]+/)
TracebackMatch(s) ==
    LET ps == {p \in 1..(Len(s) - 1) : s[p] = TracebackLit[1]}
    IN  IF ps = {} THEN NoMatch
        ELSE [matched |-> TRUE, text |-> SubSeq(s, Min(ps), Len(s))]

\* errorOutput.match(/Error.*?:.*/i): from the first 'error' that a colon
\* follows on its line, to the end of that line
ErrorLineMatch(s) ==
    LET eol(p) == Min({k \in p..(Len(s) + 1) : At(s, k) \in {"LF", "CR", "EOL"}}) - 1
        ps == {p \in 1..Len(s) :
                 /\ s[p] \in {"Error", "error", "ERROR"}
                 /\ \E k \in (p + 1)..eol(p) : s[k] = ":"}
    IN  IF ps = {} THEN NoMatch
        ELSE [matched |-> TRUE, text |-> SubSeq(s, Min(ps), eol(Min(ps)))]

\* lines 128-139: the message searchCodeHyde throws
HydeErrorMsg(r) ==
    LET errorOutput == ErrorOutput(r)
        tracebackMatch == TracebackMatch(errorOutput)
        errorMatch == ErrorLineMatch(errorOutput)
    IN  <<"HyDE search error: ">> \o
        (IF tracebackMatch.matched THEN tracebackMatch.text
         ELSE IF errorMatch.matched THEN errorMatch.text
         ELSE errorOutput)

\* lines 169-170: the message searchCodeRag throws
RagErrorMsg(r) == <<"RAG query error: ">> \o ErrorOutput(r)

\* line 203: the message summarizePR throws
SummarizeErrorMsg(r) ==
    <<"PR summarization error: ">> \o
    (IF r.stderr /= <<>> THEN r.stderr
     ELSE IF r.error /= <<>> THEN r.error ELSE UndefinedLit)

\* lines 142, 173: const output = result.stdout || result.stderr
SearchOutputOf(r) == OrElse(r.stdout, r.stderr)

\* line 206: return result.stdout
SummaryOf(r) == r.stdout

\* the text the caller passes on after a successful run
OutputOf(op, r) == IF op = "summarize" THEN SummaryOf(r) ELSE SearchOutputOf(r)

ErrorMsgOf(op, r) ==
    CASE op = "hyde" -> HydeErrorMsg(r)
      [] op = "rag" -> RagErrorMsg(r)
      [] op = "summarize" -> SummarizeErrorMsg(r)

NoResult == [success |-> FALSE, stdout |-> <<>>, stderr |-> <<>>, error |-> <<>>]

CliIdle ==
    [op |-> "none", apiKey |-> <<>>, caller |-> "idle", child |-> "none",
     errored |-> FALSE, exitCode |-> "none", stdout |-> <<>>, stderr |-> <<>>,
     settled |-> FALSE, result |-> NoResult,
     handed |-> FALSE, output |-> <<>>, thrown |-> <<>>]

-----------------------------------------------------------------------------
(* ApiKeyManager                                                           *)

\* undefined, as a stored value
Undefined == <<"undefined">>

\* v && v.trim(): v is a string with a character that is no blank
NonBlank(v) == v /= Undefined /\ v /= <<>> /\ Trim(v) /= <<>>

SecretSource == "SecretStorage (Secure)"
EnvSource == "Environment Variable"
SettingsSource == "VS Code Settings (Not Recommended)"
NoSource == "Not Configured"

\* lines 22-43: getApiKey on the stores st
GetApiKey(st) ==
    IF NonBlank(st.secret) THEN st.secret
    ELSE IF NonBlank(st.env) THEN st.env
    ELSE IF NonBlank(st.settings) THEN st.settings
    ELSE <<>>

\* getApiKeySource asking the environment variable before SecretStorage
GetApiKeySourceEnvFirst(st) ==
    IF NonBlank(st.env) THEN EnvSource
    ELSE IF NonBlank(st.secret) THEN SecretSource
    ELSE IF NonBlank(st.settings) THEN SettingsSource
    ELSE NoSource

\* lines 130-148: getApiKeySource on the stores st
GetApiKeySource(st) ==
    IF NonBlank(st.secret) THEN SecretSource
    ELSE IF NonBlank(st.env) THEN EnvSource
    ELSE IF NonBlank(st.settings) THEN SettingsSource
    ELSE NoSource

\* the three stores of the manager
Stores(a) == [secret |-> a.secret, env |-> a.env, settings |-> a.settings]

\* nothing stored, nothing asked: keyCall and sourceCall hold the last
\* answer of getApiKey and getApiKeySource with the stores it was given on
AkmIdle ==
    [secret |-> Undefined, env |-> Undefined, settings |-> <<>>,
     keyCall |-> <<>>, sourceCall |-> <<>>, thrown |-> FALSE]

-----------------------------------------------------------------------------
(* StateManager                                                            *)

\* a JavaScript value that is neither undefined nor ''
Truthy(v) == v /= Undefined /\ v /= <<>>

\* the three keys of the workspace state
Triple(s) == [repoPath |-> s.repoPath, dbPath |-> s.dbPath,
              collectionName |-> s.collectionName]

\* lines 47-49: isPipelineConfigured
IsPipelineConfigured(s) ==
    Truthy(s.repoPath) /\ Truthy(s.dbPath) /\ Truthy(s.collectionName)

\* the settings' defaults of getConfig (cliIntegration.ts lines 33-35)
DefaultTriple ==
    [repoPath |-> Undefined, dbPath |-> <<"data/chroma_db_api">>,
     collectionName |-> <<"code_collection">>]

\* cliIntegration.ts lines 28-35: the triple getConfig hands to a command
GetConfig(s) == IF IsPipelineConfigured(s) THEN Triple(s) ELSE DefaultTriple

\* lines 80-88: getPipelineConfigSummary
GetPipelineConfigSummary(s) ==
    IF ~IsPipelineConfigured(s) THEN <<"No pipeline configured. Use \"DevCopilot: Index Repository\" to get started.">>
    ELSE <<"Repository: ">> \o s.repoPath \o <<"LF", "Collection: ">> \o s.collectionName

\* a workspace never indexed; setter is the position of the
\* setPipelineConfig or clearPipelineConfig call under way, args its
\* arguments, seen what the last getConfig returned
SmIdle ==
    [repoPath |-> Undefined, dbPath |-> Undefined, collectionName |-> Undefined,
     setter |-> "idle", args |-> DefaultTriple, seen |-> <<>>, summary |-> <<>>]

\* no command under way
CmdIdle ==
    [name |-> "none", pc |-> "idle", configured |-> FALSE, query |-> Undefined,
     repoPath |-> Undefined, apiKey |-> <<>>, spawned |-> FALSE]

\* the index, the select-repository and the search command before any of
\* them ran, over a workspace never indexed: ws is the workspace state,
\* disk the state of each repository's index, atEnd what the workspace
\* state was when the index command ended, ran what the search spawned
IxIdle ==
    [ws |-> [repoPath |-> Undefined, dbPath |-> Undefined, collectionName |-> Undefined],
     disk |-> [r \in {"A", "B"} |-> "none"],
     index |-> [pc |-> "idle", repo |-> "none", outcome |-> "none", atEnd |-> <<>>],
     select |-> [pc |-> "idle", repo |-> "none"],
     find |-> [pc |-> "idle", ran |-> <<>>]]

\* no summarization under way and no error view shown: repoPath and
\* timeout are those of the attempt under way (a timeout is <<n>> for the
\* number n and <<>> for undefined), retries the number of retries that
\* led to it, failed the attempt showError was called for, view what
\* _getErrorHtml put into the error view
RtIdle ==
    [pc |-> "idle", repoPath |-> Undefined, timeout |-> <<>>, retries |-> 0,
     message |-> <<>>,
     failed |-> [repoPath |-> Undefined, timeout |-> <<>>],
     view |-> [offered |-> FALSE, newTimeout |-> 0, repoPath |-> <<>>]]

-----------------------------------------------------------------------------
(* Input texts                                                             *)

MaxSearchLines == 3
MaxRagLines == 6
MaxPrLines == 5
MaxData == 2
\* the texts drawn have an answer of at most this many atoms
MaxAnswerLen == 8
\* the meta texts have at most this many lines
MaxMetaLines == 3
\* a session holds at most this many parser calls
MaxCalls == 3
MaxMarkerLines == 4
MaxFileLines == 4
MaxBoxes == 2
MaxRetries == 3
MaxPushBackLines == 5

\* ┌─ 1. FUNCTION: foo ─┐
SH1 == <<"BoxTL", "BoxH", " ", "1", ".", " ", "FUNCTION", ":", " ", "foo", " ", "BoxH", "BoxTR">>
\* 2. CLASS: bar\r
SH2 == <<"2", ".", " ", "CLASS", ":", " ", "bar", "CR">>
\* 1. FUNCTION foo          (no colon: not a header)
SNear == <<"1", ".", " ", "FUNCTION", " ", "foo">>
\* │ 📄 foo/bar.py:10-20 │
SF1 == <<"BoxV", " ", "Pin", " ", "foo", "/", "bar", ".", "py", ":", "1", "0", "-", "2", "0", " ", "BoxV">>
\* │ 📊 Similarity: 0.8 │
SS1 == <<"BoxV", " ", "Chart", " ", "Similarity", ":", " ", "0", ".", "8", " ", "BoxV">>
\* 📊 Similarity: 1.5
SS2 == <<"Chart", " ", "Similarity", ":", " ", "1", ".", "5">>
\* 📊 Similarity: .
SS3 == <<"Chart", " ", "Similarity", ":", " ", ".">>
\* │ 📝 foo bar │
SD1 == <<"BoxV", " ", "Memo", " ", "foo", " ", "bar", " ", "BoxV">>

\* the lines of the search texts that carry a header, and the others
SearchHeaderLines == {SH1, SH2}
SearchOtherLines == {SNear, SF1, SS1, SS2, SS3, SD1, <<>>}
SearchLines == SearchHeaderLines \cup SearchOtherLines

\* n blanks
Blanks(n) == [k \in 1..n |-> " "]

\* the end-to-end example box, its lines indented by `indent` blanks and
\* padded by `pad` blanks before the right border, the lines in `crs`
\* ending in \r\n:
\*   ┌─ 1. FUNCTION: connect_db ─┐
\*   │ 📄 db/conn.py:10-20 │
\*   │ 📊 Similarity: 0.8421 │
\*   │ 📝 Opens a pooled database connection. │
\*   └─┘
ExampleBox(indent, pad, crs) ==
    LET box == <<
            <<"BoxTL", "BoxH", " ", "1", ".", " ", "FUNCTION", ":", " ",
              "connect_db", " ", "BoxH", "BoxTR">>,
            <<"BoxV", " ", "Pin", " ", "db", "/", "conn", ".", "py", ":",
              "1", "0", "-", "2", "0">> \o Blanks(pad) \o <<"BoxV">>,
            <<"BoxV", " ", "Chart", " ", "Similarity", ":", " ",
              "0", ".", "8", "4", "2", "1">> \o Blanks(pad) \o <<"BoxV">>,
            <<"BoxV", " ", "Memo", " ", "Opens", " ", "a", " ", "pooled", " ",
              "database", " ", "connection", ".">> \o Blanks(pad) \o <<"BoxV">>,
            <<"BoxBL", "BoxH", "BoxBR">> >>
    IN  [n \in 1..5 |->
            Blanks(indent) \o box[n] \o (IF n \in crs THEN <<"CR">> ELSE <<>>)]

ExampleTexts ==
    {ExampleBox(indent, pad, crs) :
        indent \in {0, 2}, pad \in {1, 3}, crs \in SUBSET (1..5)}

ExampleLines == UNION {{t[n] : n \in 1..Len(t)} : t \in ExampleTexts}

\* 📄 src/app.py:3-4
SF2 == <<"Pin", " ", "src", "/", "app", ".", "py", ":", "3", "-", "4">>
\* │ 📝 baz │
SD2 == <<"BoxV", " ", "Memo", " ", "baz", " ", "BoxV">>

\* two headers and two lines for each marker
SearchMarkerLines == {SH1, SH2, SF1, SF2, SS1, SS2, SD1, SD2}

\* ┌─ 💡 Answer ─┐
RBulb == <<"BoxTL", "BoxH", " ", "Bulb", " ", "Answer", " ", "BoxH", "BoxTR">>
\* │ Answer: │
RAnswerLit == <<"BoxV", " ", "Answer", ":", " ", "BoxV">>
\*   │ foo │            (an indented box line)
RIndented == <<" ", "BoxV", " ", "foo", " ", "BoxV">>
\* └──┘
RBottom == <<"BoxBL", "BoxH", "BoxH", "BoxBR">>
\* Query: foo
RQuery == <<"Query", ":", " ", "foo">>
\* Supporting Sources:
RSources == <<"Supporting", " ", "Sources", ":">>
\* ┌── 1. FUNCTION: foo ──┐
RHeader1 == <<"BoxTL", "BoxH", "BoxH", " ", "1", ".", " ", "FUNCTION", ":", " ", "foo", " ", "BoxH", "BoxH", "BoxTR">>
\* ┌── 2. CLASS: bar ──┐\r
RHeader2 == <<"BoxTL", "BoxH", "BoxH", " ", "2", ".", " ", "CLASS", ":", " ", "bar", " ", "BoxH", "BoxH", "BoxTR", "CR">>
\* ┌────┐                (a top border without a header)
RTop == <<"BoxTL", "BoxH", "BoxH", "BoxH", "BoxH", "BoxTR">>
\* │ 📄 foo/bar. │      (the first fragment of a wrapped path)
RPinPart == <<"BoxV", " ", "Pin", " ", "foo", "/", "bar", ".", " ", "BoxV">>
\* │ 📄 foo/bar.py:10-20 │
RPinFull == <<"BoxV", " ", "Pin", " ", "foo", "/", "bar", ".", "py", ":", "1", "0", "-", "2", "0", " ", "BoxV">>
\* │ py:10-20 │
RCont == <<"BoxV", " ", "py", ":", "1", "0", "-", "2", "0", " ", "BoxV">>
\* │ 📊 Similarity: 0.8 │
RSim == <<"BoxV", " ", "Chart", " ", "Similarity", ":", " ", "0", ".", "8", " ", "BoxV">>
\* │ 📊 Similarity: 1.5 │
RSimBig == <<"BoxV", " ", "Chart", " ", "Similarity", ":", " ", "1", ".", "5", " ", "BoxV">>
\* │ 📝 foo │
RDoc == <<"BoxV", " ", "Memo", " ", "foo", " ", "BoxV">>
\* foo                   (a line of code)
RCode == <<"foo">>

\* │ Answer: see Supporting Sources │
RAnswerSources == <<"BoxV", " ", "Answer", ":", " ", "see", " ", "Supporting", " ", "Sources", " ", "BoxV">>

\* Query: Answer: foo
RQueryAnswer == <<"Query", ":", " ", "Answer", ":", " ", "foo">>

RagLines ==
    {RBulb, RAnswerLit, RIndented, RBottom, RQuery, RSources, RHeader1,
     RHeader2, RTop, RPinPart, RPinFull, RCont, RSim, RSimBig, RDoc, RCode,
     RAnswerSources, RQueryAnswer, <<>>}

\* foo/bar.py:10-20
WrappedPath == <<"foo", "/", "bar", ".", "py", ":", "1", "0", "-", "2", "0">>
\* │ 📄 <fragment> │
PinLine(f) == <<"BoxV", " ", "Pin", " ">> \o f \o <<" ", "BoxV">>
\* │ <fragment> │
ContLine(f) == <<"BoxV", " ">> \o f \o <<" ", "BoxV">>
\* the line with \r\n as its line end
WithCR(l) == l \o <<"CR">>

\* a source box whose path foo/bar.py:10-20 is wrapped after its k-th atom,
\* under either header, with \n or \r\n line ends
WrappedBox(k, hdr, crlf) ==
    LET box == <<RSources, hdr,
                 PinLine(SubSeq(WrappedPath, 1, k)),
                 ContLine(SubSeq(WrappedPath, k + 1, Len(WrappedPath))),
                 RBottom>>
    IN  IF crlf THEN [n \in 1..Len(box) |-> WithCR(StripCR(box[n]))] ELSE box

WrappedTexts ==
    {WrappedBox(k, hdr, crlf) :
        k \in 1..(Len(WrappedPath) - 1), hdr \in {RHeader1, RHeader2}, crlf \in BOOLEAN}

WrappedLines == UNION {{t[n] : n \in 1..Len(t)} : t \in WrappedTexts}

\* Branch: foo
PBranch == <<"Branch", ":", " ", "foo">>
\* Commits: 12
PCommits == <<"Commits", ":", " ", "1", "2">>
\* Commits: foo
PCommitsBad == <<"Commits", ":", " ", "foo">>
\* Changed files: 3\r
PChanged == <<"Changed", " ", "files", ":", " ", "3", "CR">>
\* │ PR SUMMARIZATION PIPELINE │
PPipeBox == <<"BoxV", " ", "PR", " ", "SUMMARIZATION", " ", "PIPELINE", " ", "BoxV">>
\* • a1b2c3d4 - foo
PCommit == <<"Bullet", " ", "a1b2c3d4", " ", "-", " ", "foo">>
\* ┌─ 🔹 foo.py ─┐
PTop == <<"BoxTL", "BoxH", " ", "Diamond", " ", "foo", ".", "py", " ", "BoxH", "BoxTR">>
\* │ adds error handling │
PLine == <<"BoxV", " ", "adds", " ", "error", " ", "handling", " ", "BoxV">>
\* └──┘
PBottom == <<"BoxBL", "BoxH", "BoxH", "BoxBR">>
\* 📝 Overall PR Summary:
POverall == <<"Memo", " ", "Overall", " ", "PR", " ", "Summary", ":">>
\* PR SUMMARIZATION PIPELINE
PPipe == <<"PR", " ", "SUMMARIZATION", " ", "PIPELINE">>
\* [1/4] foo
PTag == <<"[", "1", "/", "4", "]", " ", "foo">>
\* ⚠️ foo
PWarn == <<"Warn", " ", "foo">>
\* foo bar
PText == <<"foo", " ", "bar">>
\* ====
PSep == <<"=", "=", "=", "=">>

\* the lines of the summary texts, by what they carry
PrMetaLines == {PBranch, PCommits, PCommitsBad, PChanged}
PrPipelineLines == {PPipe, PPipeBox, PTag}
PrSkippedLines == {PSep, <<>>}
PrLines ==
    PrMetaLines \cup PrPipelineLines \cup PrSkippedLines
    \cup {PCommit, PTop, PLine, PBottom, POverall, PWarn, PText}

\* Commits:7
MCommitsTight == <<"Commits", ":", "7">>
\* Commits: 4 total
MCommitsUnits == <<"Commits", ":", " ", "4", " ", "total">>
\* Commits:
MCommitsEmpty == <<"Commits", ":">>
\* Commits: 0
MCommitsZero == <<"Commits", ":", " ", "0">>
\*   Commits: 5
MCommitsIndented == <<" ", " ", "Commits", ":", " ", "5">>
\* Commits: -2
MCommitsNegative == <<"Commits", ":", " ", "-", "2">>
\* Changed files: many
MChangedBad == <<"Changed", " ", "files", ":", " ", "many">>
\* │ Commits: 9 │      (starts with the bar: no Commits: line)
MBoxed == <<"BoxV", " ", "Commits", ":", " ", "9", " ", "BoxV">>

\* the lines of the meta texts
MetaLines ==
    {PCommits, PCommitsBad, MCommitsTight, MCommitsUnits, MCommitsEmpty,
     MCommitsZero, MCommitsIndented, MCommitsNegative, PChanged, MChangedBad,
     MBoxed, PBranch, PText, POverall, PPipe}

\* the file-change box of the example, for the file named `name`, padded by
\* `pad` blanks before the right border, the lines in `crs` ending in \r\n:
\*   ┌─ 🔹 <name> ─┐
\*   │ adds error handling │
\*   └──┘
FileBox(name, pad, crs) ==
    LET box == <<
            <<"BoxTL", "BoxH", " ", "Diamond", " ">> \o name \o <<" ", "BoxH", "BoxTR">>,
            <<"BoxV", " ", "adds", " ", "error", " ", "handling">>
                \o Blanks(pad) \o <<"BoxV">>,
            PBottom >>
    IN  [n \in 1..3 |-> box[n] \o (IF n \in crs THEN <<"CR">> ELSE <<>>)]

FileBoxTexts ==
    {FileBox(name, pad, crs) :
        name \in {<<"foo", ".", "py">>, <<"src", "/", "app", ".", "py">>},
        pad \in {1, 3}, crs \in SUBSET (1..3)}

FileBoxLines == UNION {{t[n] : n \in 1..Len(t)} : t \in FileBoxTexts}

\* the chunks a 'data' event may carry
StdoutChunks == {<<"out">>}
StderrChunks == {<<"err">>, <<"Error", ":", " ", "boom">>}

\* every text of at most n lines over the line set C
Texts(C, n) == UNION {[1..k -> C] : k \in 0..n}

-----------------------------------------------------------------------------
(* The loops                                                               *)

\* the lines the next iteration may read
NextLines(C, max) ==
    IF feed = "fixed" THEN (IF i < Len(lines) THEN {lines[i + 1]} ELSE {})
    ELSE IF redo /= <<>> THEN {redo[1]}
    ELSE IF i < max THEN C
    ELSE {}

\* i < lines.length fails
AtEnd == IF feed = "fixed" THEN i >= Len(lines) ELSE redo = <<>>

\* no call under way
Base(f) ==
    /\ fn = f
    /\ i = 0
    /\ redo = <<>>
    /\ pc = "loop"
    /\ search = SearchInit
    /\ rag = RagInit
    /\ pr = PrInit
    /\ cli = CliIdle
    /\ history = <<>>

Idle(f) ==
    /\ Base(f)
    /\ akm = AkmIdle
    /\ sm = SmIdle
    /\ cmd = CmdIdle
    /\ ix = IxIdle
    /\ rt = RtIdle

\* one iteration of parseSearchOutput's loop, reading the raw line l
SearchIterOn(l) ==
    /\ fn = "search" /\ pc = "loop"
    /\ l \in NextLines(SearchLines, MaxSearchLines)
    /\ search' = SearchStep(search, StripCR(l))
    /\ i' = i + 1
    /\ UNCHANGED <<aside, fn, feed, lines, redo, pc, rag, pr, cli>>

SearchIter ==
    \E l \in SearchLines \cup ExampleLines \cup SearchMarkerLines : SearchIterOn(l)

SearchReturn ==
    /\ fn = "search" /\ pc = "loop" /\ AtEnd
    /\ search' = SearchFinish(search)
    /\ pc' = "done"
    /\ UNCHANGED <<aside, fn, feed, lines, i, redo, rag, pr, cli>>

InitSearch ==
    /\ feed = "fixed"
    /\ lines \in Texts(SearchLines, MaxSearchLines)
    /\ Idle("search")

NextSearch == SearchIter \/ SearchReturn

SpecSearch == InitSearch /\ [][NextSearch]_vars

\* parseSearchOutput on the end-to-end example box
InitSearchExample ==
    /\ feed = "fixed"
    /\ lines \in ExampleTexts
    /\ Idle("search")

SpecSearchExample == InitSearchExample /\ [][NextSearch]_vars

\* parseSearchOutput on the texts with repeated marker lines
InitSearchMarkers ==
    /\ feed = "fixed"
    /\ lines \in Texts(SearchMarkerLines, MaxMarkerLines)
    /\ Idle("search")

SpecSearchMarkers == InitSearchMarkers /\ [][NextSearch]_vars

\* one iteration of parseRagOutput's loop, reading the raw line l
RagIterOn(l) ==
    /\ fn = "rag" /\ pc = "loop"
    /\ l \in NextLines(RagLines, MaxRagLines)
    /\ LET st == RagStep(rag, StripCR(l))
       IN  /\ Len(st.answer) <= MaxAnswerLen
           /\ rag' = st
           /\ i' = IF st.back THEN i ELSE i + 1
           /\ redo' = IF st.back THEN <<StripCR(l)>> ELSE <<>>
           /\ pc' = IF st.threw THEN "threw" ELSE "loop"
    /\ UNCHANGED <<aside, fn, feed, lines, search, pr, cli>>

RagIter == \E l \in RagLines \cup WrappedLines : RagIterOn(l)

RagReturn ==
    /\ fn = "rag" /\ pc = "loop" /\ AtEnd
    /\ rag' = RagFinish(rag)
    /\ pc' = "done"
    /\ UNCHANGED <<aside, fn, feed, lines, i, redo, search, pr, cli>>

InitRag ==
    /\ feed = "free"
    /\ lines = <<>>
    /\ Idle("rag")

NextRag == RagIter \/ RagReturn

SpecRag == InitRag /\ [][NextRag]_vars

\* parseRagOutput on the texts with one wrapped source box
InitRagWrapped ==
    /\ feed = "fixed"
    /\ lines \in WrappedTexts
    /\ Idle("rag")

SpecRagWrapped == InitRagWrapped /\ [][NextRag]_vars

\* the lines that lead to the push-back and follow it
PushBackLines == {RSources, RHeader1, RBottom, RTop, RCode}

\* parseRagOutput on the texts over these lines; the loop runs on until
\* it returns
InitRagPushBack ==
    /\ feed = "fixed"
    /\ lines \in Texts(PushBackLines, MaxPushBackLines)
    /\ Idle("rag")

\* the loop has a line to read
RagReading == fn = "rag" /\ pc = "loop" /\ ~AtEnd

\* the for loop is synchronous code: while it has a line it reads it, and
\* at the end of the lines it returns.  The fairness of the iteration is
\* WF_vars(RagIter) with its ENABLED written as RagReading: an iteration
\* changes i or redo unless the pushed-back line is pushed back again,
\* and that case is what C31_Terminates rules out by its first conjunct.
SpecRagPushBack ==
    /\ InitRagPushBack
    /\ [][NextRag]_vars
    /\ WF_vars(RagReturn)
    /\ ([]<>(~RagReading) \/ []<><<RagIter>>_vars)

\* a source box in a text: its header, then the wrapped path or nothing,
\* then nothing (the box is left open), the bottom border, the bottom
\* border and a code line, or these and a plain top border
BoxTails == {<<>>, <<RBottom>>, <<RBottom, RCode>>, <<RBottom, RCode, RTop>>}

BoxTexts ==
    {<<h>> \o p \o t : h \in {RHeader1, RHeader2},
                       p \in {<<>>, <<RPinPart, RCont>>},
                       t \in BoxTails}

\* the texts of n boxes
RECURSIVE BoxSeqs(_)
BoxSeqs(n) ==
    IF n = 0 THEN {<<>>}
    ELSE {b \o t : b \in BoxTexts, t \in BoxSeqs(n - 1)}

\* parseRagOutput on the Supporting Sources line followed by up to
\* MaxBoxes boxes
InitRagBoxes ==
    /\ feed = "fixed"
    /\ lines \in {<<RSources>> \o t : t \in UNION {BoxSeqs(n) : n \in 0..MaxBoxes}}
    /\ Idle("rag")

SpecRagBoxes == InitRagBoxes /\ [][NextRag]_vars

\* one iteration of _parsePRSummary's loop, reading the line l
PrIterOn(l) ==
    /\ fn = "pr" /\ pc = "loop"
    /\ l \in NextLines(PrLines, MaxPrLines)
    /\ pr' = PrStep(pr, l)
    /\ i' = i + 1
    /\ UNCHANGED <<aside, fn, feed, lines, redo, pc, search, rag, cli>>

PrIter == \E l \in PrLines \cup MetaLines \cup FileBoxLines : PrIterOn(l)

PrReturn ==
    /\ fn = "pr" /\ pc = "loop" /\ AtEnd
    /\ pr' = PrFinish(pr)
    /\ pc' = "done"
    /\ UNCHANGED <<aside, fn, feed, lines, i, redo, search, rag, cli>>

InitPr ==
    /\ feed = "free"
    /\ lines = <<>>
    /\ Idle("pr")

NextPr == PrIter \/ PrReturn

\* _parsePRSummary on the meta texts
InitPrMeta ==
    /\ feed = "fixed"
    /\ lines \in Texts(MetaLines, MaxMetaLines)
    /\ Idle("pr")

SpecPrMeta == InitPrMeta /\ [][NextPr]_vars

\* _parsePRSummary on the example file-change box
InitPrFileBox ==
    /\ feed = "fixed"
    /\ lines \in FileBoxTexts
    /\ Idle("pr")

SpecPrFileBox == InitPrFileBox /\ [][NextPr]_vars

\* the lines of open and closed file boxes: two top borders, an interior
\* line, the bottom border and the Overall PR Summary marker
OpenBoxLines == {FileBox(<<"foo", ".", "py">>, 1, {})[1],
                 FileBox(<<"src", "/", "app", ".", "py">>, 1, {})[1],
                 FileBox(<<"foo", ".", "py">>, 1, {})[2],
                 PBottom, POverall}

\* _parsePRSummary on the texts over these lines
InitPrOpenBox ==
    /\ feed = "fixed"
    /\ lines \in Texts(OpenBoxLines, MaxFileLines)
    /\ Idle("pr")

SpecPrOpenBox == InitPrOpenBox /\ [][NextPr]_vars

SpecPr == InitPr /\ [][NextPr]_vars

-----------------------------------------------------------------------------
(* The subprocess and the three callers                                    *)

\* lines 105-125, 146-166, 177-200: the caller checks the key, then
\* executeCLI spawns the child
CliCall ==
    /\ fn = "cli" /\ cli.caller = "idle"
    /\ \E op \in {"hyde", "rag", "summarize"}, key \in {<<>>, <<"key">>} :
          cli' = IF key = <<>>
                 THEN [cli EXCEPT !.op = op, !.apiKey = key, !.caller = "threw",
                                  !.thrown = <<"API key not provided">>]
                 ELSE [cli EXCEPT !.op = op, !.apiKey = key, !.caller = "awaiting",
                                  !.child = "running"]
    /\ UNCHANGED <<aside, fn, feed, lines, i, redo, pc, search, rag, pr>>

\* lines 73-75: stdout 'data'
CliStdoutData ==
    /\ fn = "cli" /\ cli.child = "running"
    /\ Len(cli.stdout) < MaxData
    /\ \E chunk \in StdoutChunks : cli' = [cli EXCEPT !.stdout = @ \o chunk]
    /\ UNCHANGED <<aside, fn, feed, lines, i, redo, pc, search, rag, pr>>

\* lines 77-79: stderr 'data'
CliStderrData ==
    /\ fn = "cli" /\ cli.child = "running"
    /\ Len(cli.stderr) < MaxData
    /\ \E chunk \in StderrChunks : cli' = [cli EXCEPT !.stderr = @ \o chunk]
    /\ UNCHANGED <<aside, fn, feed, lines, i, redo, pc, search, rag, pr>>

\* lines 81-88: 'error' (the child could not be spawned or killed)
CliOnError ==
    /\ fn = "cli" /\ cli.child = "running" /\ ~cli.errored
    /\ cli' = [Resolve(cli, ErrorResult(cli)) EXCEPT !.errored = TRUE]
    /\ UNCHANGED <<aside, fn, feed, lines, i, redo, pc, search, rag, pr>>

\* lines 90-96: 'close', the child's last event
CliOnClose ==
    /\ fn = "cli" /\ cli.child = "running"
    /\ \E code \in {"0", "1", "null"} :
          cli' = [Resolve(cli, CloseResult(cli, code)) EXCEPT
                    !.child = "closed", !.exitCode = code]
    /\ UNCHANGED <<aside, fn, feed, lines, i, redo, pc, search, rag, pr>>

\* lines 127-143, 168-174, 202-206: the caller resumes with the result
CliResume ==
    /\ fn = "cli" /\ cli.caller = "awaiting" /\ cli.settled
    /\ cli' = IF ~cli.result.success
              THEN [cli EXCEPT !.caller = "threw",
                               !.thrown = ErrorMsgOf(cli.op, cli.result)]
              ELSE [cli EXCEPT !.caller = "returned", !.handed = TRUE,
                               !.output = OutputOf(cli.op, cli.result)]
    /\ UNCHANGED <<aside, fn, feed, lines, i, redo, pc, search, rag, pr>>

InitCli ==
    /\ feed = "fixed"
    /\ lines = <<>>
    /\ Idle("cli")

NextCli ==
    \/ CliCall
    \/ CliStdoutData
    \/ CliStderrData
    \/ CliOnError
    \/ CliOnClose
    \/ CliResume

SpecCli == InitCli /\ [][NextCli]_vars

-----------------------------------------------------------------------------
(* Calls one after the other                                               *)

Parsers == {"search", "rag", "pr"}

\* the texts of a session, by parser
ReparseTexts(f) ==
    CASE f = "search" -> {<<SH1, SS1>>, <<SF1, SH2>>}
      [] f = "rag" -> {<<RBulb, RIndented>>,
                       <<RSources, RHeader1, RPinFull, RBottom, RCode>>}
      [] f = "pr" -> {<<PTop, PLine, PBottom>>, <<PPipe, PWarn>>}

\* results and currentResult declared at module level instead of in the
\* call: the results array of the previous call is still there
SearchEnterShared(prev) == [results |-> prev.results, currentResult |-> Null]

\* lines 211-216: a call of parseSearchOutput declares its locals anew,
\* whatever the previous call (prev) left
SearchEnter(prev) == SearchInit

\* lines 275-284: a call of parseRagOutput declares its locals anew
RagEnter(prev) == RagInit

\* lines 652-663: a call of _parsePRSummary declares its locals anew
PrEnter(prev) == PrInit

\* the value the call under way returned (lines 269, 455, 748)
Returned ==
    CASE fn = "search" -> search.results
      [] fn = "rag" -> [answer |-> rag.answer, sources |-> rag.sources]
      [] fn = "pr" -> [meta |-> pr.meta, commitHistory |-> pr.commitHistory,
                       fileChanges |-> pr.fileChanges,
                       overallSummary |-> pr.overallSummary,
                       pipelineInfo |-> pr.pipelineInfo,
                       warnings |-> pr.warnings]

\* the call under way has returned; a parser is called on a text
ParseAgain ==
    /\ fn \in Parsers /\ pc = "done" /\ feed = "fixed"
    /\ Len(history) < MaxCalls - 1
    /\ history' = Append(history, [fn |-> fn, text |-> lines, result |-> Returned])
    /\ \E f \in Parsers :
          /\ fn' = f
          /\ lines' \in ReparseTexts(f)
          /\ search' = IF f = "search" THEN SearchEnter(search) ELSE search
          /\ rag' = IF f = "rag" THEN RagEnter(rag) ELSE rag
          /\ pr' = IF f = "pr" THEN PrEnter(pr) ELSE pr
    /\ i' = 0 /\ redo' = <<>> /\ pc' = "loop"
    /\ UNCHANGED <<feed, akm, sm, cmd, cli, ix, rt>>

InitReparse ==
    /\ feed = "fixed"
    /\ \E f \in Parsers : lines \in ReparseTexts(f) /\ Idle(f)

NextReparse == NextSearch \/ NextRag \/ NextPr \/ ParseAgain

SpecReparse == InitReparse /\ [][NextReparse]_vars

-----------------------------------------------------------------------------
(* ApiKeyManager's methods                                                 *)

\* the values a store may hold: nothing, '', ' ', and two keys
SecretValues == {Undefined, <<>>, <<" ">>, <<"sk-1">>, <<" ", "sk-2", " ">>}
EnvValues == {Undefined, <<>>, <<" ">>, <<"sk-3">>, <<"sk-1">>}
SettingsValues == {<<>>, <<" ">>, <<"sk-4">>}

\* lines 22-43
AkmGetApiKey ==
    /\ fn = "akm"
    /\ akm' = [akm EXCEPT !.keyCall =
                  <<[stores |-> Stores(akm), value |-> GetApiKey(akm)]>>]
    /\ UNCHANGED <<calls, sm, cmd>>

\* lines 130-148
AkmGetApiKeySource ==
    /\ fn = "akm"
    /\ akm' = [akm EXCEPT !.sourceCall =
                  <<[stores |-> Stores(akm), value |-> GetApiKeySource(akm)]>>]
    /\ UNCHANGED <<calls, sm, cmd>>

\* lines 48-53: setApiKey throws on an empty key and stores any other
AkmSetApiKey ==
    /\ fn = "akm"
    /\ \E v \in SecretValues \ {Undefined} :
          akm' = IF NonBlank(v) THEN [akm EXCEPT !.secret = v, !.thrown = FALSE]
                 ELSE [akm EXCEPT !.thrown = TRUE]
    /\ UNCHANGED <<calls, sm, cmd>>

\* lines 58-60
AkmDeleteApiKey ==
    /\ fn = "akm"
    /\ akm' = [akm EXCEPT !.secret = Undefined, !.thrown = FALSE]
    /\ UNCHANGED <<calls, sm, cmd>>

InitAkm ==
    /\ feed = "fixed"
    /\ lines = <<>>
    /\ Base("akm")
    /\ ix = IxIdle
    /\ rt = RtIdle
    /\ sm = SmIdle
    /\ cmd = CmdIdle
    /\ \E s \in SecretValues, e \in EnvValues, c \in SettingsValues :
          akm = [AkmIdle EXCEPT !.secret = s, !.env = e, !.settings = c]

NextAkm ==
    \/ AkmGetApiKey
    \/ AkmGetApiKeySource
    \/ AkmSetApiKey
    \/ AkmDeleteApiKey

SpecAkm == InitAkm /\ [][NextAkm]_vars

-----------------------------------------------------------------------------
(* StateManager's methods                                                  *)

\* the configurations of two repositories, and the cleared one
ConfigA == [repoPath |-> <<"repoA">>, dbPath |-> <<"dbA">>, collectionName |-> <<"a_code">>]
ConfigB == [repoPath |-> <<"repoB">>, dbPath |-> <<"dbB">>, collectionName |-> <<"b_code">>]
Cleared == [repoPath |-> Undefined, dbPath |-> Undefined, collectionName |-> Undefined]

\* lines 38-39 and 54-55: the call updates repoPath and awaits
SmSetPipelineConfig ==
    /\ fn = "sm" /\ sm.setter = "idle"
    /\ \E c \in {ConfigA, ConfigB, Cleared} :
          sm' = [sm EXCEPT !.repoPath = c.repoPath, !.args = c, !.setter = "await1"]
    /\ UNCHANGED <<calls, akm, cmd>>

\* lines 40 and 56: resumed, the call updates dbPath and awaits
SmSetDbPath ==
    /\ fn = "sm" /\ sm.setter = "await1"
    /\ sm' = [sm EXCEPT !.dbPath = sm.args.dbPath, !.setter = "await2"]
    /\ UNCHANGED <<calls, akm, cmd>>

\* lines 41 and 57: resumed, the call updates collectionName and awaits
SmSetCollectionName ==
    /\ fn = "sm" /\ sm.setter = "await2"
    /\ sm' = [sm EXCEPT !.collectionName = sm.args.collectionName, !.setter = "await3"]
    /\ UNCHANGED <<calls, akm, cmd>>

\* lines 42 and 58: resumed, the call returns
SmSetReturn ==
    /\ fn = "sm" /\ sm.setter = "await3"
    /\ sm' = [sm EXCEPT !.setter = "idle"]
    /\ UNCHANGED <<calls, akm, cmd>>

\* a command running between two steps of the setter calls getConfig
SmGetConfig ==
    /\ fn = "sm"
    /\ sm' = [sm EXCEPT !.seen = <<GetConfig(sm)>>]
    /\ UNCHANGED <<calls, akm, cmd>>

\* the status bar calls getPipelineConfigSummary
SmGetSummary ==
    /\ fn = "sm"
    /\ sm' = [sm EXCEPT !.summary = GetPipelineConfigSummary(sm)]
    /\ UNCHANGED <<calls, akm, cmd>>

InitSm ==
    /\ feed = "fixed"
    /\ lines = <<>>
    /\ Base("sm")
    /\ ix = IxIdle
    /\ rt = RtIdle
    /\ akm = AkmIdle
    /\ cmd = CmdIdle
    /\ sm = SmIdle

NextSm ==
    \/ SmSetPipelineConfig
    \/ SmSetDbPath
    \/ SmSetCollectionName
    \/ SmSetReturn
    \/ SmGetConfig
    \/ SmGetSummary

SpecSm == InitSm /\ [][NextSm]_vars

-----------------------------------------------------------------------------
(* The commands                                                            *)

\* what the user may give for the query: a dismissed box, '', a blank, a question
Queries == {Undefined, <<>>, <<" ">>, <<"how does routing work">>}

\* what the key box may give: a dismissed box, '', a blank, a key
KeyInputs == {Undefined, <<>>, <<" ">>, <<"sk-5-typed">>}

\* the buttons of the warning of getApiKeyWithPrompt, and its dismissal
KeyChoices == {"Set API Key", "Use Environment Variable", "Cancel", "dismissed"}

\* the command after getApiKeyWithPrompt gave k, spawning whatever k is
CmdAfterKeyNoCheck(c, k) ==
    [c EXCEPT !.apiKey = k, !.spawned = TRUE, !.pc = "running"]

\* searchCodeRag.ts lines 40-46, summarizePR.ts lines 40-46 and
\* cliIntegration.ts lines 149-166: the command after getApiKeyWithPrompt
\* gave k; it returns on an empty k and calls executeCLI on any other
CmdAfterKey(c, k) ==
    IF Truthy(k) THEN [c EXCEPT !.apiKey = k, !.spawned = TRUE, !.pc = "running"]
    ELSE [c EXCEPT !.apiKey = k, !.pc = "done"]

\* searchCodeRag.ts lines 7-26: the command starts, returns when no
\* pipeline is configured and opens the query box otherwise
CmdSearchCodeRag ==
    /\ fn = "cmd" /\ cmd.pc = "idle"
    /\ cmd' = [cmd EXCEPT !.name = "rag",
                          !.configured = IsPipelineConfigured(sm),
                          !.pc = IF IsPipelineConfigured(sm) THEN "query" ELSE "done"]
    /\ UNCHANGED <<calls, akm, sm>>

\* searchCodeRag.ts lines 22-40: the query box closes; the command
\* returns on no query and calls getApiKeyWithPrompt otherwise
CmdQuery ==
    /\ fn = "cmd" /\ cmd.pc = "query"
    /\ \E q \in Queries :
          cmd' = [cmd EXCEPT !.query = q,
                             !.pc = IF Truthy(q) THEN "key" ELSE "done"]
    /\ UNCHANGED <<calls, akm, sm>>

\* summarizePR.ts lines 7-40: the command starts, resolves the repository
\* path, returns when there is none and calls getApiKeyWithPrompt otherwise
CmdSummarizePR ==
    /\ fn = "cmd" /\ cmd.pc = "idle"
    /\ \E provided \in {Undefined, <<"repoP">>}, folder \in {Undefined, <<"folder">>} :
          LET repoPath == IF Truthy(provided) THEN provided
                          ELSE IF IsPipelineConfigured(sm) THEN sm.repoPath
                          ELSE folder
          IN  cmd' = [cmd EXCEPT !.name = "summarize",
                                 !.configured = IsPipelineConfigured(sm),
                                 !.repoPath = repoPath,
                                 !.pc = IF Truthy(repoPath) THEN "key" ELSE "done"]
    /\ UNCHANGED <<calls, akm, sm>>

\* apiKeyManager.ts lines 101-110 and 124: getApiKey answers; a key is
\* returned to the command, without one the warning is shown
CmdGetApiKey ==
    /\ fn = "cmd" /\ cmd.pc = "key"
    /\ cmd' = IF NonBlank(GetApiKey(akm)) THEN CmdAfterKey(cmd, GetApiKey(akm))
              ELSE [cmd EXCEPT !.apiKey = GetApiKey(akm), !.pc = "choice"]
    /\ UNCHANGED <<calls, akm, sm>>

\* apiKeyManager.ts lines 112-124: the warning closes; 'Set API Key'
\* opens the key box, anything else returns the empty key
CmdChoice ==
    /\ fn = "cmd" /\ cmd.pc = "choice"
    /\ \E choice \in KeyChoices :
          cmd' = IF choice = "Set API Key" THEN [cmd EXCEPT !.pc = "input"]
                 ELSE CmdAfterKey(cmd, cmd.apiKey)
    /\ UNCHANGED <<calls, akm, sm>>

\* apiKeyManager.ts lines 66-95 and 113-124: the key box closes; a key
\* is stored and read back, no key or a throwing setApiKey leaves the
\* empty key
CmdKeyInput ==
    /\ fn = "cmd" /\ cmd.pc = "input"
    /\ \E v \in KeyInputs :
          /\ akm' = IF ~Truthy(v) THEN akm
                    ELSE IF NonBlank(v) THEN [akm EXCEPT !.secret = v, !.thrown = FALSE]
                    ELSE [akm EXCEPT !.thrown = TRUE]
          /\ cmd' = IF NonBlank(v) THEN CmdAfterKey(cmd, GetApiKey(akm'))
                    ELSE CmdAfterKey(cmd, cmd.apiKey)
    /\ UNCHANGED <<calls, sm>>

\* the command returns, after the subprocess when it spawned one
CmdReturn ==
    /\ fn = "cmd" /\ cmd.pc \in {"done", "running"}
    /\ cmd' = CmdIdle
    /\ UNCHANGED <<calls, akm, sm>>

\* a workspace never indexed, one that setPipelineConfig is half way
\* through, and an indexed one; the keys of the three stores
InitCmd ==
    /\ feed = "fixed"
    /\ lines = <<>>
    /\ Base("cmd")
    /\ ix = IxIdle
    /\ rt = RtIdle
    /\ cmd = CmdIdle
    /\ \E c \in {Cleared, [Cleared EXCEPT !.repoPath = <<"repoA">>], ConfigA} :
          sm = [SmIdle EXCEPT !.repoPath = c.repoPath, !.dbPath = c.dbPath,
                              !.collectionName = c.collectionName]
    /\ \E s \in {Undefined, <<" ">>, <<"sk-1">>}, e \in {Undefined, <<"sk-3">>},
          c \in {<<>>, <<"sk-4">>} :
          akm = [AkmIdle EXCEPT !.secret = s, !.env = e, !.settings = c]

NextCmd ==
    \/ CmdSearchCodeRag
    \/ CmdQuery
    \/ CmdSummarizePR
    \/ CmdGetApiKey
    \/ CmdChoice
    \/ CmdKeyInput
    \/ CmdReturn

SpecCmd == InitCmd /\ [][NextCmd]_vars

-----------------------------------------------------------------------------
(* The index, select-repository and search commands on one workspace       *)

Repos == {"A", "B"}

\* StateManager.generateDbPath and generateCollectionName for the repository
ConfigOf(r) == IF r = "A" THEN ConfigA ELSE ConfigB

\* UpdateKey where the call returns after its first update
UpdateKeyFirstOnly(ws, c, n) ==
    IF n = 1 THEN [ws EXCEPT !.repoPath = c.repoPath] ELSE ws

\* the n-th awaited update of setPipelineConfig(c) or clearPipelineConfig()
\* (stateManager.ts lines 39-41 and 55-57)
UpdateKey(ws, c, n) ==
    CASE n = 1 -> [ws EXCEPT !.repoPath = c.repoPath]
      [] n = 2 -> [ws EXCEPT !.dbPath = c.dbPath]
      [] n = 3 -> [ws EXCEPT !.collectionName = c.collectionName]

\* the repository a search with the configuration c reads, by its
\* collection: "default" for the settings' defaults
IndexOf(c) ==
    IF c.collectionName = ConfigA.collectionName THEN "A"
    ELSE IF c.collectionName = ConfigB.collectionName THEN "B"
    ELSE "default"

\* selectRepository.js lines 120-148: the index command starts; the user
\* picks a folder and confirms, and setPipelineConfig makes its first
\* update; a dismissed dialog returns
IxIndexStart ==
    /\ fn = "ix" /\ ix.index.pc = "idle"
    /\ \E r \in Repos, confirmed \in BOOLEAN :
          ix' = IF confirmed
                THEN [ix EXCEPT !.ws = UpdateKey(@, ConfigOf(r), 1),
                                !.index.repo = r, !.index.pc = "set1"]
                ELSE [ix EXCEPT !.index.pc = "ended", !.index.outcome = "cancelled"]
    /\ UNCHANGED <<pipeline, rt>>

\* line 148, stateManager.ts lines 40-41: the second and third update
IxIndexSet ==
    /\ fn = "ix" /\ ix.index.pc \in {"set1", "set2"}
    /\ ix' = IF ix.index.pc = "set1"
             THEN [ix EXCEPT !.ws = UpdateKey(@, ConfigOf(ix.index.repo), 2),
                             !.index.pc = "set2"]
             ELSE [ix EXCEPT !.ws = UpdateKey(@, ConfigOf(ix.index.repo), 3),
                             !.index.pc = "set3"]
    /\ UNCHANGED <<pipeline, rt>>

\* lines 150-164: setPipelineConfig returned; executeCLI spawns the indexer
IxIndexSpawn ==
    /\ fn = "ix" /\ ix.index.pc = "set3"
    /\ ix' = [ix EXCEPT !.index.pc = "running", !.disk[ix.index.repo] = "indexing"]
    /\ UNCHANGED <<pipeline, rt>>

\* lines 164-182: the indexer's result; on success the command ends, on
\* failure the catch block calls clearPipelineConfig, which makes its first
\* update
IxIndexClose ==
    /\ fn = "ix" /\ ix.index.pc = "running"
    /\ \E success \in BOOLEAN :
          ix' = IF success
                THEN [ix EXCEPT !.disk[ix.index.repo] = "indexed",
                                !.index.pc = "ended", !.index.outcome = "indexed",
                                !.index.atEnd = <<ix.ws>>]
                ELSE [ix EXCEPT !.disk[ix.index.repo] = "failed",
                                !.ws = UpdateKey(@, Cleared, 1),
                                !.index.pc = "clear1"]
    /\ UNCHANGED <<pipeline, rt>>

\* line 181, stateManager.ts lines 56-57: the second and third update of
\* clearPipelineConfig
IxIndexClear ==
    /\ fn = "ix" /\ ix.index.pc \in {"clear1", "clear2"}
    /\ ix' = IF ix.index.pc = "clear1"
             THEN [ix EXCEPT !.ws = UpdateKey(@, Cleared, 2), !.index.pc = "clear2"]
             ELSE [ix EXCEPT !.ws = UpdateKey(@, Cleared, 3), !.index.pc = "clear3"]
    /\ UNCHANGED <<pipeline, rt>>

\* lines 181-184: clearPipelineConfig returned and the command ends
IxIndexEnd ==
    /\ fn = "ix" /\ ix.index.pc = "clear3"
    /\ ix' = [ix EXCEPT !.index.pc = "ended", !.index.outcome = "failed",
                        !.index.atEnd = <<ix.ws>>]
    /\ UNCHANGED <<pipeline, rt>>

\* fs.existsSync(dbPath) && fs.existsSync(chroma.sqlite3) (lines 58-60): a
\* finished index has the file, a repository never indexed has not, an
\* index under way or failed may have it
CollectionExists(r) ==
    CASE ix.disk[r] = "indexed" -> {TRUE}
      [] ix.disk[r] = "none" -> {FALSE}
      [] OTHER -> BOOLEAN

\* selectRepository.js lines 41-73: the select command starts; with the
\* collection on disk, or after 'Index Now', setPipelineConfig makes its
\* first update; a dismissed dialog or 'Cancel' returns
IxSelectStart ==
    /\ fn = "ix" /\ ix.select.pc = "idle"
    /\ \E r \in Repos, picked \in BOOLEAN, indexNow \in BOOLEAN :
       \E collectionExists \in CollectionExists(r) :
          ix' = IF picked /\ (collectionExists \/ indexNow)
                THEN [ix EXCEPT !.ws = UpdateKey(@, ConfigOf(r), 1),
                                !.select.repo = r, !.select.pc = "set1"]
                ELSE [ix EXCEPT !.select.pc = "ended"]
    /\ UNCHANGED <<pipeline, rt>>

\* lines 66 and 73, stateManager.ts lines 40-41: the second and third
\* update
IxSelectSet ==
    /\ fn = "ix" /\ ix.select.pc \in {"set1", "set2"}
    /\ ix' = IF ix.select.pc = "set1"
             THEN [ix EXCEPT !.ws = UpdateKey(@, ConfigOf(ix.select.repo), 2),
                             !.select.pc = "set2"]
             ELSE [ix EXCEPT !.ws = UpdateKey(@, ConfigOf(ix.select.repo), 3),
                             !.select.pc = "set3"]
    /\ UNCHANGED <<pipeline, rt>>

\* lines 68-75: setPipelineConfig returned; the command shows its message,
\* or hands over to the index command (IxIndexStart), and ends
IxSelectEnd ==
    /\ fn = "ix" /\ ix.select.pc = "set3"
    /\ ix' = [ix EXCEPT !.select.pc = "ended"]
    /\ UNCHANGED <<pipeline, rt>>

\* searchCodeRag.ts lines 8-26: the search command starts; it returns when
\* no pipeline is configured and opens the query box otherwise
IxSearchStart ==
    /\ fn = "ix" /\ ix.find.pc = "idle"
    /\ ix' = [ix EXCEPT !.find.pc =
                 IF IsPipelineConfigured(ix.ws) THEN "query" ELSE "ended"]
    /\ UNCHANGED <<pipeline, rt>>

\* searchCodeRag.ts lines 28-46, cliIntegration.ts lines 147-166: the
\* query box closes; with a query and a key searchCodeRag reads getConfig
\* and executeCLI spawns the search on that database
IxSearchSpawn ==
    /\ fn = "ix" /\ ix.find.pc = "query"
    /\ \E given \in BOOLEAN :
          ix' = IF given
                THEN [ix EXCEPT !.find.pc = "ran",
                                !.find.ran =
                                    <<[config |-> GetConfig(ix.ws),
                                       index |-> IF IndexOf(GetConfig(ix.ws)) \in Repos
                                                 THEN ix.disk[IndexOf(GetConfig(ix.ws))]
                                                 ELSE "default"]>>]
                ELSE [ix EXCEPT !.find.pc = "ended"]
    /\ UNCHANGED <<pipeline, rt>>

\* a workspace never indexed, or one with repository B indexed and
\* selected
InitIx ==
    /\ feed = "fixed"
    /\ lines = <<>>
    /\ Base("ix")
    /\ akm = AkmIdle /\ sm = SmIdle /\ cmd = CmdIdle /\ rt = RtIdle
    /\ ix \in {IxIdle, [IxIdle EXCEPT !.ws = ConfigB, !.disk["B"] = "indexed"]}

NextIx ==
    \/ IxIndexStart
    \/ IxIndexSet
    \/ IxIndexSpawn
    \/ IxIndexClose
    \/ IxIndexClear
    \/ IxIndexEnd
    \/ IxSelectStart
    \/ IxSelectSet
    \/ IxSelectEnd
    \/ IxSearchStart
    \/ IxSearchSpawn

SpecIx == InitIx /\ [][NextIx]_vars

\* the index command and the search command, with no other command that
\* writes the workspace state, from a workspace never indexed or one with
\* either repository indexed and selected
InitIndexOnly ==
    /\ feed = "fixed"
    /\ lines = <<>>
    /\ Base("ix")
    /\ akm = AkmIdle /\ sm = SmIdle /\ cmd = CmdIdle /\ rt = RtIdle
    /\ ix \in {IxIdle} \cup
              {[IxIdle EXCEPT !.ws = ConfigOf(r), !.disk[r] = "indexed"] : r \in Repos}

NextIndexOnly ==
    \/ IxIndexStart
    \/ IxIndexSet
    \/ IxIndexSpawn
    \/ IxIndexClose
    \/ IxIndexClear
    \/ IxIndexEnd
    \/ IxSearchStart
    \/ IxSearchSpawn

SpecIndexOnly == InitIndexOnly /\ [][NextIndexOnly]_vars

-----------------------------------------------------------------------------
(* The retry of a PR summarization from the error view                     *)

\* summarizePR.ts line 30: providedTimeout || 300
DefaultTimeout == 300
\* resultsViewProvider.ts line 1090: timeout ? timeout * 2 : 600
FirstRetryTimeout == 600

\* repository paths: /home/app, C:\repos\app, /srv/R&D and /home/o'neil
PosixPath == <<"/", "home", "/", "app">>
WinPath == <<"C", ":", "\\", "r", "epos", "\\", "a", "pp">>
AmpPath == <<"/", "srv", "/", "R", "&", "D">>
QuotePath == <<"/", "home", "/", "o", "'", "neil">>
RepoPaths == {PosixPath, WinPath, AmpPath, QuotePath}

\* error messages: two that name a timeout, two that do not
ErrorMessages ==
    {<<"request", " ", "timeout">>,
     <<"LLM", " ", "Timeout", " ", "exceeded">>,
     <<"request", " ", "timed", " ", "out">>,
     <<"fatal", ":", " ", "not", " ", "a", " ", "git", " ", "repository">>}

\* String.prototype.toLowerCase on the words of the messages
RECURSIVE MessageLower(_)
MessageLower(m) ==
    IF m = <<>> THEN <<>>
    ELSE <<CASE Head(m) = "Timeout" -> "timeout"
             [] Head(m) = "LLM" -> "llm"
             [] Head(m) = "PR" -> "pr"
             [] Head(m) = "Summarization" -> "summarization"
             [] Head(m) = "Error" -> "error"
             [] OTHER -> Head(m)>> \o MessageLower(Tail(m))

\* a number that is neither undefined nor 0
TruthyNumber(t) == t /= <<>> /\ t[1] /= 0

\* lines 1220-1227: _escapeHtml
RECURSIVE EscapeHtml(_)
EscapeHtml(s) ==
    IF s = <<>> THEN <<>>
    ELSE <<CASE Head(s) = "&" -> "&amp;"
             [] Head(s) = "<" -> "&lt;"
             [] Head(s) = ">" -> "&gt;"
             [] Head(s) = "\"" -> "&quot;"
             [] Head(s) = "'" -> "&#039;"
             [] OTHER -> Head(s)>> \o EscapeHtml(Tail(s))

\* the value of the string literal '...' the webview's script holds for the
\* text s: a backslash and the character after it are an escape sequence
\* (\r, \n and \t are control characters, any other character stands for
\* itself); character references are not decoded inside a script element
RECURSIVE ScriptStringValue(_)
ScriptStringValue(s) ==
    IF s = <<>> THEN <<>>
    ELSE IF Head(s) = "\\" /\ Len(s) >= 2
    THEN <<CASE s[2] = "r" -> "CR"
             [] s[2] = "n" -> "LF"
             [] s[2] = "t" -> "TAB"
             [] OTHER -> s[2]>> \o ScriptStringValue(SubSeq(s, 3, Len(s)))
    ELSE <<Head(s)>> \o ScriptStringValue(Tail(s))

\* lines 1087-1104 and 1192-1198: what _getErrorHtml puts into the view
ErrorView(title, message, repoPath, timeout) ==
    LET isTimeout == \/ Includes(MessageLower(message), <<"timeout">>)
                     \/ Includes(MessageLower(title), <<"timeout">>)
    IN  [offered |-> isTimeout /\ Truthy(repoPath),
         newTimeout |-> IF TruthyNumber(timeout) THEN timeout[1] * 2 ELSE FirstRetryTimeout,
         repoPath |-> IF Truthy(repoPath) THEN ScriptStringValue(EscapeHtml(repoPath))
                      ELSE <<>>]

SummarizeTitle == <<"PR", " ", "Summarization", " ", "Error">>
RagTitle == <<"RAG", " ", "Query", " ", "Error">>

\* summarizePR.ts lines 7-37: the command with its arguments; it returns
\* without a repository path and runs with providedTimeout || 300
SummarizeWith(r, providedRepoPath, providedTimeout) ==
    IF ~Truthy(providedRepoPath) THEN [r EXCEPT !.pc = "ended"]
    ELSE [r EXCEPT !.pc = "running",
                   !.repoPath = providedRepoPath,
                   !.timeout = IF TruthyNumber(providedTimeout) THEN providedTimeout
                               ELSE <<DefaultTimeout>>]

\* the user runs the summarize command: no arguments, the repository path
\* is the configured one, the workspace folder, or unknown
RtSummarize ==
    /\ fn = "rt" /\ rt.pc = "idle"
    /\ \E p \in RepoPaths \cup {Undefined} :
          rt' = SummarizeWith(rt, p, <<>>)
    /\ UNCHANGED <<pipeline, ix>>

\* summarizePR.ts lines 46-61: summarizePR returns and the summary is
\* shown, or it throws and showError is called with the repository path
\* and the timeout of this attempt
RtOutcome ==
    /\ fn = "rt" /\ rt.pc = "running"
    /\ \/ rt' = [rt EXCEPT !.pc = "ended"]
       \/ \E m \in ErrorMessages :
             rt' = [rt EXCEPT !.pc = "error", !.message = m,
                              !.failed = [repoPath |-> rt.repoPath, timeout |-> rt.timeout],
                              !.view = ErrorView(SummarizeTitle, m, rt.repoPath, rt.timeout)]
    /\ UNCHANGED <<pipeline, ix>>

\* searchCodeRag.ts line 70: a failed RAG query calls showError with a
\* title and a message only
RtRagError ==
    /\ fn = "rt" /\ rt.pc = "idle"
    /\ \E m \in ErrorMessages :
          rt' = [rt EXCEPT !.pc = "error", !.message = m,
                           !.view = ErrorView(RagTitle, m, Undefined, <<>>)]
    /\ UNCHANGED <<pipeline, ix>>

\* lines 1193-1198, 33-34 and 1231-1251: the retry button posts the view's
\* repository path and timeout, and _retrySummarization runs the summarize
\* command with them
RtRetry ==
    /\ fn = "rt" /\ rt.pc = "error" /\ rt.view.offered
    /\ rt.retries < MaxRetries
    /\ rt' = [SummarizeWith(rt, rt.view.repoPath, <<rt.view.newTimeout>>) EXCEPT
                !.retries = @ + 1]
    /\ UNCHANGED <<pipeline, ix>>

InitRt ==
    /\ feed = "fixed"
    /\ lines = <<>>
    /\ Base("rt")
    /\ akm = AkmIdle /\ sm = SmIdle /\ cmd = CmdIdle /\ ix = IxIdle
    /\ rt = RtIdle

NextRt == RtSummarize \/ RtOutcome \/ RtRagError \/ RtRetry

SpecRt == InitRt /\ [][NextRt]_vars

-----------------------------------------------------------------------------
(* All of it                                                               *)

\* the three parsers
InitParsers == InitSearch \/ InitRag \/ InitPr

NextParsers == NextSearch \/ NextRag \/ NextPr

SpecParsers == InitParsers /\ [][NextParsers]_vars

Init == InitSearch \/ InitRag \/ InitPr \/ InitCli

Next == NextSearch \/ NextRag \/ NextPr \/ NextCli

Spec == Init /\ [][Next]_vars

-----------------------------------------------------------------------------
(* Claims                                                                  *)

Range(f) == {f[k] : k \in DOMAIN f}

\* the header lines of a search text, in order, and the record each opens
RECURSIVE HeadersOf(_)
HeadersOf(ls) ==
    IF ls = <<>> THEN <<>>
    ELSE IF ls[1] = SH1 THEN <<[type |-> "function", name |-> <<"foo">>]>> \o HeadersOf(Tail(ls))
    ELSE IF ls[1] = SH2 THEN <<[type |-> "class", name |-> <<"bar">>]>> \o HeadersOf(Tail(ls))
    ELSE HeadersOf(Tail(ls))

\* C1: parseSearchOutput returns exactly one record per header line of the
\* text, in the order of those lines (type and name are the header's), and
\* the empty array when the text has no header line.
C1_OneRecordPerHeader ==
    (fn = "search" /\ pc = "done") =>
        LET hs == HeadersOf(lines)
        IN  /\ Len(search.results) = Len(hs)
            /\ \A k \in 1..Len(hs) :
                  /\ search.results[k].type = hs[k].type
                  /\ search.results[k].name = hs[k].name

\* a text header / other line / header was parsed to two records
C1_Witness ==
    /\ fn = "search" /\ pc = "done"
    /\ Len(lines) = 3 /\ lines[1] = SH1 /\ lines[2] \in SearchOtherLines /\ lines[3] = SH2
    /\ Len(search.results) = 2

\* C2: every source parseRagOutput returns has a non-empty file path.
C2_SourcesHavePath ==
    (fn = "rag" /\ pc = "done") =>
        \A k \in 1..Len(rag.sources) :
            Has(rag.sources[k], "file_path") /\ rag.sources[k].file_path /= <<>>

\* C3: the answer parseRagOutput returns holds no box-drawing character and
\* not the literal 'Answer:'.
C3_AnswerClean ==
    (fn = "rag" /\ pc = "done") =>
        /\ \A k \in 1..Len(rag.answer) : rag.answer[k] \notin BoxChars
        /\ ~Includes(rag.answer, AnswerLit)

\* C4: a source box whose path is wrapped over two interior lines, the
\* fragments joining to foo/bar.py:10-20, yields one source with file path
\* foo/bar.py, start line 10 and end line 20.
C4_WrappedPath ==
    (fn = "rag" /\ pc = "done") =>
        /\ Len(rag.sources) = 1
        /\ Has(rag.sources[1], "file_path")
        /\ rag.sources[1].file_path = <<"foo", "/", "bar", ".", "py">>
        /\ rag.sources[1].start_line = [nan |-> FALSE, num |-> 10, den |-> 1]
        /\ rag.sources[1].end_line = [nan |-> FALSE, num |-> 20, den |-> 1]

\* the box wrapped inside the range (foo/bar.py:1 | 0-20) was parsed
C4_Witness ==
    /\ fn = "rag" /\ pc = "done"
    /\ lines[3] = PinLine(SubSeq(WrappedPath, 1, 7))
    /\ Len(rag.sources) = 1

\* C5: no parser throws on any text; parseRagOutput has a source record
\* whenever a source box is open, so it never writes a field of null.
C5_NeverThrows ==
    /\ pc /= "threw"
    /\ ~rag.threw
    /\ rag.inSourceBox => rag.currentSource /= Null

\* parseRagOutput wrote file_path, start_line and end_line and returned
C5_Witness ==
    /\ fn = "rag" /\ pc = "done"
    /\ Len(rag.sources) = 1
    /\ Has(rag.sources[1], "end_line")

\* the child failed: an 'error' event, or a close with a code other than 0
SubprocessFailed ==
    cli.errored \/ (cli.child = "closed" /\ cli.exitCode /= "0")

\* C6: the callers pass output on only after a close with exit code 0 and
\* no 'error' event; when the subprocess failed they throw and pass nothing.
C6_ParseOnlyAfterSuccess ==
    /\ cli.handed => (cli.child = "closed" /\ cli.exitCode = "0" /\ ~cli.errored)
    /\ (cli.caller \in {"threw", "returned"} /\ SubprocessFailed) =>
          (cli.caller = "threw" /\ ~cli.handed)

\* a child that wrote to stdout and exited with code 1 made the caller throw
C6_Witness ==
    /\ cli.caller = "threw"
    /\ cli.exitCode = "1"
    /\ cli.result.stdout /= <<>>
    /\ ~cli.handed

\* C7: after a successful run the text passed on is the captured stdout
\* when it is non-empty and the captured stderr otherwise.
C7_StdoutElseStderr ==
    cli.handed =>
        cli.output = IF cli.result.stdout /= <<>> THEN cli.result.stdout
                     ELSE cli.result.stderr

\* C8: every line starting with the warning glyph is appended to warnings,
\* whatever the current section.
C8_WarningsAlways ==
    [][\A l \in PrLines :
          (At(Trim(l), 1) = "Warn" /\ PrIterOn(l)) =>
              pr'.warnings = Append(pr.warnings, Trim(l))]_vars

\* the lines of the summary texts that reach the pipeline branches in the
\* pipeline section: no meta, commit, top-border or overall-marker line
PrPlainLines == {PWarn, PText, PLine, PBottom}

C10_SimilarityInRange ==
    (pc = "done") =>
        \A r \in Range(search.results) \cup Range(rag.sources) :
            Has(r, "similarity") =>
                /\ ~r.similarity.nan
                /\ 0 <= r.similarity.num
                /\ r.similarity.num <= r.similarity.den

\* the records opened so far: the pushed ones and the one in progress
SearchOpened ==
    IF search.currentResult = Null \/ pc = "done" THEN search.results
    ELSE Append(search.results, search.currentResult)

\* C11: a record exists only once its header line was read (the pushed
\* records and the one in progress are as many as the header lines read);
\* a header line pushes the record in progress and opens one carrying only
\* type and name; a non-header line pushes nothing, and changes nothing at
\* all before the first header; the return pushes the record in progress.
C11_HeaderOpensRecord ==
    /\ [](fn = "search" => Len(SearchOpened) = Len(HeadersOf(SubSeq(lines, 1, i))))
    /\ [][\A l \in SearchLines :
            SearchIterOn(l) =>
               /\ l \in SearchHeaderLines =>
                     /\ search'.results =
                           IF search.currentResult = Null THEN search.results
                           ELSE Append(search.results, search.currentResult)
                     /\ search'.currentResult = HeadersOf(<<l>>)[1]
               /\ l \notin SearchHeaderLines =>
                     /\ search'.results = search.results
                     /\ search.currentResult = Null => search' = search]_vars
    /\ [][SearchReturn =>
            search'.results =
                IF search.currentResult = Null THEN search.results
                ELSE Append(search.results, search.currentResult)]_vars

\* a file line before the first header left no trace, and the header with
\* no marker line after it was returned with type and name only
C11_Witness ==
    /\ fn = "search" /\ pc = "done"
    /\ lines = <<SF1, SH1, SH2>>
    /\ search.results = <<[type |-> "function", name |-> <<"foo">>],
                          [type |-> "class", name |-> <<"bar">>]>>

\* C12: the end-to-end example box parses to exactly one record: type
\* function, name connect_db, file path db/conn.py, lines 10 to 20,
\* similarity 0.8421 and the docstring text, no field holding a border
\* character.
C12_ExampleRecord ==
    (fn = "search" /\ pc = "done") =>
        search.results =
            <<[type |-> "function",
               name |-> <<"connect_db">>,
               file_path |-> <<"db", "/", "conn", ".", "py">>,
               start_line |-> [nan |-> FALSE, num |-> 10, den |-> 1],
               end_line |-> [nan |-> FALSE, num |-> 20, den |-> 1],
               similarity |-> [nan |-> FALSE, num |-> 8421, den |-> 10000],
               docstring |-> <<"Opens", " ", "a", " ", "pooled", " ",
                               "database", " ", "connection", ".">>]>>

\* the example as the specification prints it (indented, padded, \n line
\* ends) was parsed to one record with a docstring
C12_Witness ==
    /\ fn = "search" /\ pc = "done"
    /\ lines = ExampleBox(2, 3, {})
    /\ Len(search.results) = 1
    /\ Has(search.results[1], "docstring")

\* the integer a Commits: line of the meta texts carries (<<>>: no such line)
CommitsOn(l) ==
    CASE l = PCommits -> <<12>>
      [] l = MCommitsTight -> <<7>>
      [] l = MCommitsUnits -> <<4>>
      [] l = MCommitsIndented -> <<5>>
      [] l = MCommitsNegative -> <<0 - 2>>
      [] l \in {PCommitsBad, MCommitsEmpty, MCommitsZero} -> <<0>>
      [] OTHER -> <<>>

\* the integer a Changed files: line of the meta texts carries
ChangedOn(l) ==
    CASE l = PChanged -> <<3>>
      [] l = MChangedBad -> <<0>>
      [] OTHER -> <<>>

\* the value of the last Commits: line of ls, 0 when there is none
RECURSIVE LastCommits(_)
LastCommits(ls) ==
    IF ls = <<>> THEN 0
    ELSE IF CommitsOn(ls[Len(ls)]) /= <<>> THEN CommitsOn(ls[Len(ls)])[1]
    ELSE LastCommits(SubSeq(ls, 1, Len(ls) - 1))

\* the value of the last Changed files: line of ls, 0 when there is none
RECURSIVE LastChanged(_)
LastChanged(ls) ==
    IF ls = <<>> THEN 0
    ELSE IF ChangedOn(ls[Len(ls)]) /= <<>> THEN ChangedOn(ls[Len(ls)])[1]
    ELSE LastChanged(SubSeq(ls, 1, Len(ls) - 1))

\* C13: meta.commits and meta.changedFiles are 0 when the text has no
\* Commits: / Changed files: line or the last such line carries no integer,
\* and the integer of the last such line otherwise.
C13_MetaCounts ==
    (fn = "pr" /\ pc = "done") =>
        /\ pr.meta.commits = LastCommits(lines)
        /\ pr.meta.changedFiles = LastChanged(lines)

\* a numeric Commits: line, then a non-numeric one, were parsed to 0, and
\* the Changed files: line to 3
C13_Witness ==
    /\ fn = "pr" /\ pc = "done"
    /\ lines = <<PCommits, PChanged, PCommitsBad>>
    /\ pr.meta.commits = 0
    /\ pr.meta.changedFiles = 3

\* C14: a file-box top border, the interior line "adds error handling" and
\* a bottom border yield exactly one fileChanges entry whose content is
\* exactly "adds error handling".
C14_FileBoxContent ==
    (fn = "pr" /\ pc = "done") =>
        /\ Len(pr.fileChanges) = 1
        /\ pr.fileChanges[1].content = <<"adds", " ", "error", " ", "handling">>

ApiKeys == {<<"sk-1">>, <<" ", "sk-2", " ">>, <<"sk-3">>, <<"sk-4">>}

\* the first provider, in the order SecretStorage, environment, settings,
\* whose stored value is a key (0: none)
FirstProvider(st) ==
    IF st.secret \in ApiKeys THEN 1
    ELSE IF st.env \in ApiKeys THEN 2
    ELSE IF st.settings \in ApiKeys THEN 3
    ELSE 0

\* C16: getApiKey returns the stored value of the first provider, in the
\* order SecretStorage, LLM_API_KEY, settings, whose value is non-empty
\* after trimming, and '' when there is none; getApiKeySource, asked on the
\* same stored values, names that provider.
C16_FirstKeyAndItsSource ==
    /\ akm.keyCall /= <<>> =>
          LET st == akm.keyCall[1].stores
              p == FirstProvider(st)
          IN  akm.keyCall[1].value =
                 CASE p = 1 -> st.secret [] p = 2 -> st.env
                   [] p = 3 -> st.settings [] p = 0 -> <<>>
    /\ (/\ akm.keyCall /= <<>>
        /\ akm.sourceCall /= <<>>
        /\ akm.keyCall[1].stores = akm.sourceCall[1].stores) =>
          LET st == akm.keyCall[1].stores
              p == FirstProvider(st)
          IN  akm.sourceCall[1].value =
                 CASE p = 1 -> SecretSource [] p = 2 -> EnvSource
                   [] p = 3 -> SettingsSource [] p = 0 -> NoSource

\* both getters answered on stores where SecretStorage and the environment
\* each hold a key: the key of SecretStorage, untrimmed, and its name
C16_Witness ==
    /\ akm.keyCall /= <<>> /\ akm.sourceCall /= <<>>
    /\ akm.keyCall[1].stores = akm.sourceCall[1].stores
    /\ akm.keyCall[1].stores.secret = <<" ", "sk-2", " ">>
    /\ akm.keyCall[1].stores.env = <<"sk-3">>
    /\ akm.keyCall[1].value = <<" ", "sk-2", " ">>
    /\ akm.sourceCall[1].value = SecretSource

\* C17: after a failed subprocess the message thrown contains the captured
\* stderr when it is non-empty, else the captured stdout, else the spawn
\* error's message.
C17_ErrorCarriesOutput ==
    (cli.caller = "threw" /\ cli.settled /\ ~cli.result.success) =>
        Includes(cli.thrown,
                 IF cli.result.stderr /= <<>> THEN cli.result.stderr
                 ELSE IF cli.result.stdout /= <<>> THEN cli.result.stdout
                 ELSE cli.result.error)

\* C18: setPipelineConfig sets the three values at once: what getConfig
\* hands to a command is the defaults or the configuration of one
\* repository, never values of two configurations mixed.
C18_ConfigSetAtOnce ==
    sm.seen /= <<>> => sm.seen[1] \in {DefaultTriple, ConfigA, ConfigB}

C20_PinLineCommits ==
    [][(/\ RagIterOn(RPinFull)
        /\ rag.inSourcesSection /\ rag.inSourceBox
        /\ ~rag.collectingFilePath /\ rag.currentSource /= Null)
       => /\ ~rag'.collectingFilePath
          /\ Has(rag'.currentSource, "file_path")
          /\ rag'.currentSource.file_path = <<"foo", "/", "bar", ".", "py">>
          /\ rag'.currentSource.start_line = [nan |-> FALSE, num |-> 10, den |-> 1]
          /\ rag'.currentSource.end_line = [nan |-> FALSE, num |-> 20, den |-> 1]]_vars

\* a source box is open: the header was read, the bottom border not yet
RagBoxOpen == rag.inSourcesSection /\ rag.inSourceBox /\ rag.currentSource /= Null

\* C21: in an open source box every 📊 Similarity: line sets the
\* similarity of the current source and every 📝 line its docstring,
\* before and after the 📄 line.
C21_MarkersAlwaysSet ==
    [][/\ (RagBoxOpen /\ RagIterOn(RSim)) =>
             /\ Has(rag'.currentSource, "similarity")
             /\ rag'.currentSource.similarity = [nan |-> FALSE, num |-> 8, den |-> 10]
       /\ (RagBoxOpen /\ RagIterOn(RDoc)) =>
             /\ Has(rag'.currentSource, "docstring")
             /\ rag'.currentSource.docstring = <<"foo">>]_vars

\* C22: every bottom border read while a source box is open closes the
\* box and starts the collection of code, whatever the state of the path
\* accumulation.
C22_BottomAlwaysCloses ==
    [][(RagBoxOpen /\ RagIterOn(RBottom)) =>
          ~rag'.inSourceBox /\ rag'.collectingCode]_vars

\* the box of the current source is closed and its code is being collected
RagCollecting == rag.inSourcesSection /\ rag.collectingCode /\ ~rag.inSourceBox

\* the line is a query echo or carries the Supporting Sources marker
RagEchoOrMarker(l) ==
    \/ StartsWith(Trim(l), RagQueryLit)
    \/ StartsWith(Trim(l), QueryLit)
    \/ Includes(Trim(l), SourcesLit)

\* this step appends l unchanged to the code buffer and nothing else
RagCodeKept(l) ==
    /\ rag'.codeLines = Append(rag.codeLines, l)
    /\ rag'.sources = rag.sources
    /\ rag'.currentSource = rag.currentSource
    /\ rag'.collectingCode

\* this step attaches the joined buffer to the current source, pushes it
\* and empties the buffer; a header top border opens the next record in
\* the same step, any other top border is read again
RagCodeFlushed(l) ==
    /\ rag'.sources = Append(rag.sources, WithSnippet(rag))
    /\ rag'.codeLines = <<>>
    /\ ~rag'.collectingCode
    /\ IF BoxStartMatch(l).matched
       THEN /\ rag'.inSourceBox
            /\ rag'.currentSource = [type |-> ToLowerCase(BoxStartMatch(l).kind),
                                     name |-> Trim(BoxStartMatch(l).name)]
            /\ i' = i + 1
       ELSE /\ rag'.currentSource = Null
            /\ i' = i /\ redo' = <<l>>

RagOpenWithPath ==
    /\ rag.currentSource /= Null
    /\ Has(rag.currentSource, "file_path")
    /\ rag.currentSource.file_path /= <<>>

\* C24: at end of input an open record with a file path is pushed, with
\* the pending code lines joined as its code snippet when there are any,
\* and an open record without a file path is discarded; a record pushed
\* inside the loop is no longer the open one (the open record after a push
\* is none or a new one without a file path), so none is pushed twice.
C24_EndOfInput ==
    [][/\ RagReturn =>
             rag'.sources = IF RagOpenWithPath THEN Append(rag.sources, WithSnippet(rag))
                            ELSE rag.sources
       /\ (pc' = "loop" /\ rag'.sources /= rag.sources) =>
             \/ rag'.currentSource = Null
             \/ ~Has(rag'.currentSource, "file_path")]_vars

\* the call returned one source, pushed at end of input with its path and
\* its code snippet
C24_Witness ==
    /\ fn = "rag" /\ pc = "done"
    /\ Len(rag.sources) = 1
    /\ rag.sources[1] = rag.currentSource
    /\ Has(rag.sources[1], "file_path")
    /\ Has(rag.sources[1], "code_snippet")

\* C25: any line containing 'Supporting Sources' puts the parser in the
\* sources phase and ends the answer phase, from whatever phase it is in,
\* also when the line carries an answer marker.
C25_SourcesMarkerAlways ==
    [][\A l \in RagLines :
          (RagIterOn(l) /\ Includes(Trim(StripCR(l)), SourcesLit)) =>
              rag'.inSourcesSection /\ ~rag'.inAnswerSection]_vars

\* C26: a query-echo line (starting with 'Query:' or with 'Code Search -
\* RAG Mode Query:') leaves the whole parser state as it is, in every
\* phase.
C26_QueryEchoNoEffect ==
    [][\A l \in RagLines :
          (/\ RagIterOn(l)
           /\ \/ StartsWith(Trim(StripCR(l)), QueryLit)
              \/ StartsWith(Trim(StripCR(l)), RagQueryLit)) =>
              [rag' EXCEPT !.back = FALSE] = [rag EXCEPT !.back = FALSE]]_vars

C28_FileBoxProtocol ==
    [][\A l \in FileBoxLines :
          PrIterOn(l) =>
              /\ At(l, 1) = "BoxTL" =>
                    /\ pr'.currentSection = "fileChange"
                    /\ pr'.currentFileChange /= Null
                    /\ pr'.fileChangeContent = <<>>
                    /\ pr'.fileChanges =
                          IF pr.currentFileChange = Null THEN pr.fileChanges
                          ELSE Append(pr.fileChanges,
                                      [pr.currentFileChange EXCEPT
                                         !.content = Trim(pr.fileChangeContent)])
              /\ (pr.currentSection = "fileChange" /\ At(l, 1) = "BoxV") =>
                    /\ pr'.fileChangeContent =
                          pr.fileChangeContent
                              \o <<"adds", " ", "error", " ", "handling", " ">>
                    /\ pr'.fileChanges = pr.fileChanges
                    /\ pr'.currentSection = "fileChange"
              /\ (pr.currentSection = "fileChange" /\ At(l, 1) = "BoxBL") =>
                    /\ pr'.currentSection = "between"
                    /\ pr'.currentFileChange = Null
                    /\ pr'.fileChanges =
                          Append(pr.fileChanges,
                                 [pr.currentFileChange EXCEPT
                                    !.content = Trim(pr.fileChangeContent)])]_vars

\* the line is made of box-drawing border characters only
PureBorder(l) ==
    l /= <<>> /\ \A k \in 1..Len(l) :
                    l[k] \in {"BoxTL", "BoxH", "BoxTR", "BoxV", "BoxBL", "BoxBR"}

\* C29: a line with the 'Overall PR Summary' marker sets section =
\* overallSummary from any section; overallSummary grows only in that
\* section and only by a non-empty line that is not made of border
\* characters alone: a pure border line is never appended.
C29_OverallSkipsBorders ==
    [][\A l \in PrLines :
          PrIterOn(l) =>
              /\ StartsWith(Trim(l), OverallLit) => pr'.currentSection = "overallSummary"
              /\ pr'.overallSummary /= pr.overallSummary =>
                    /\ pr.currentSection = "overallSummary"
                    /\ Trim(l) /= <<>>
                    /\ ~PureBorder(Trim(l))]_vars

\* the fields a marker line carries
FieldsOf(l) ==
    CASE l = SF1 -> [file_path |-> <<"foo", "/", "bar", ".", "py">>,
                     start_line |-> [nan |-> FALSE, num |-> 10, den |-> 1],
                     end_line |-> [nan |-> FALSE, num |-> 20, den |-> 1]]
      [] l = SF2 -> [file_path |-> <<"src", "/", "app", ".", "py">>,
                     start_line |-> [nan |-> FALSE, num |-> 3, den |-> 1],
                     end_line |-> [nan |-> FALSE, num |-> 4, den |-> 1]]
      [] l = SS1 -> [similarity |-> [nan |-> FALSE, num |-> 8, den |-> 10]]
      [] l = SS2 -> [similarity |-> [nan |-> FALSE, num |-> 15, den |-> 10]]
      [] l = SD1 -> [docstring |-> <<"foo", " ", "bar">>]
      [] l = SD2 -> [docstring |-> <<"baz">>]

\* the position of the last header line of the text, 0 when there is none
LastHeaderAt ==
    LET hs == {k \in 1..Len(lines) : lines[k] \in SearchHeaderLines}
    IN  IF hs = {} THEN 0 ELSE CHOOSE k \in hs : \A m \in hs : m <= k

\* the position of the last line of S after the last header, 0 when there
\* is none
LastMarkerAt(S) ==
    LET ms == {k \in (LastHeaderAt + 1)..Len(lines) : lines[k] \in S}
    IN  IF ms = {} THEN 0 ELSE CHOOSE k \in ms : \A m \in ms : m <= k

\* record r carries the fields of the last line of S after the last
\* header, and none of the fields named in fs when there is no such line
LastWins(r, S, fs) ==
    IF LastMarkerAt(S) = 0 THEN \A f \in fs : ~Has(r, f)
    ELSE \A f \in fs : Has(r, f) /\ r[f] = FieldsOf(lines[LastMarkerAt(S)])[f]

C31_Terminates ==
    /\ []((RagReading /\ rag.back) =>
             /\ ~rag.collectingCode
             /\ ~RagStep(rag, StripCR(lines[i + 1])).back)
    /\ [][(RagIter /\ rag.back) => (~rag'.back /\ i' = i + 1)]_vars
    /\ <>(fn = "rag" /\ pc = "done")

C31_Witness ==
    /\ fn = "rag" /\ pc = "done"
    /\ lines = <<RSources, RHeader1, RBottom, RCode, RTop>>
    /\ Len(rag.sources) = 1
    /\ rag.sources[1].code_snippet = RCode

\* the step on the line l leaves the code buffer as it is, empties it, or
\* appends l, which is no top border, while code is collected for the same
\* record
RagCodeStep(l) ==
    \/ rag'.codeLines = rag.codeLines
    \/ rag'.codeLines = <<>>
    \/ /\ rag.collectingCode /\ ~rag.inSourceBox
       /\ ~IsTopBorder(l)
       /\ rag'.codeLines = Append(rag.codeLines, l)
       /\ rag'.currentSource = rag.currentSource

\* C32: after every line an open box has a current source, code is
\* collected only for a current source outside its box, and the code buffer
\* is non-empty only while code is collected; collecting starts with an
\* empty buffer at the bottom border of the open box, only lines that are
\* no top border are appended, a top border read while collecting ends the
\* collection, and a pushed record carries the buffer of that moment.
C32_BufferInvariants ==
    /\ [](fn = "rag" =>
            /\ rag.inSourceBox => rag.currentSource /= Null
            /\ rag.collectingCode => (rag.currentSource /= Null /\ ~rag.inSourceBox)
            /\ rag.codeLines /= <<>> => rag.collectingCode)
    /\ [][\A l \in RagLines :
            RagIterOn(l) =>
              /\ (~rag.collectingCode /\ rag'.collectingCode) =>
                    /\ IsBottomBorder(StripCR(l)) /\ rag.inSourceBox
                    /\ rag'.currentSource = rag.currentSource
                    /\ rag'.codeLines = <<>>
              /\ RagCodeStep(StripCR(l))
              /\ (rag.collectingCode /\ IsTopBorder(StripCR(l))) =>
                    (rag'.codeLines = <<>> /\ ~rag'.collectingCode)
              /\ rag'.sources /= rag.sources =>
                    rag'.sources = Append(rag.sources, WithSnippet(rag))]_vars

\* two code lines were collected after the box and pushed with the record
\* by the top border after them, which is to be read again
C32_Witness ==
    /\ fn = "rag" /\ pc = "loop"
    /\ rag.back /\ rag.currentSource = Null /\ ~rag.collectingCode
    /\ Len(rag.sources) = 1
    /\ Has(rag.sources[1], "code_snippet")
    /\ rag.sources[1].code_snippet = <<"foo", "LF", " ", "BoxV", " ", "foo", " ", "BoxV">>

\* the type and name given by the header lines of the text t, in order
RECURSIVE HeaderSources(_)
HeaderSources(t) ==
    IF t = <<>> THEN <<>>
    ELSE LET m == BoxStartMatch(StripCR(Head(t)))
         IN  (IF m.matched
              THEN <<[type |-> ToLowerCase(m.kind), name |-> Trim(m.name)]>>
              ELSE <<>>) \o HeaderSources(Tail(t))

\* the type and name of the records of srcs, in order
RECURSIVE SourceKeys(_)
SourceKeys(srcs) ==
    IF srcs = <<>> THEN <<>>
    ELSE <<[type |-> Head(srcs).type, name |-> Head(srcs).name]>> \o SourceKeys(Tail(srcs))

\* a is b with some of its elements left out
RECURSIVE IsSubSeq(_, _)
IsSubSeq(a, b) ==
    IF a = <<>> THEN TRUE
    ELSE IF b = <<>> THEN FALSE
    ELSE IF Head(a) = Head(b) THEN IsSubSeq(Tail(a), Tail(b))
    ELSE IsSubSeq(a, Tail(b))

\* C33: the pushed records, followed by the record in progress, are the
\* records of the header lines read so far with some left out, in the
\* headers' order; so are the returned sources for the headers of the whole
\* text: every header gives at most one source and no record is pushed twice.
C33_SourcesInHeaderOrder ==
    /\ (fn = "rag" /\ pc = "loop") =>
          IsSubSeq(SourceKeys(rag.sources
                              \o (IF rag.currentSource /= Null
                                  THEN <<rag.currentSource>> ELSE <<>>)),
                   HeaderSources(SubSeq(lines, 1, i)))
    /\ (fn = "rag" /\ pc = "done") =>
          IsSubSeq(SourceKeys(rag.sources), HeaderSources(lines))

\* the first record was pushed by the second header, the second one at the
\* end of the input
C33_Witness ==
    /\ fn = "rag" /\ pc = "done"
    /\ lines = <<RSources, RHeader1, RPinPart, RCont, RBottom, RHeader2, RPinPart, RCont>>
    /\ Len(rag.sources) = 2
    /\ rag.sources[1].name = <<"foo">>
    /\ rag.sources[2].name = <<"bar">>

\* the line is a header of a source box
IsHeaderLine(l) == BoxStartMatch(StripCR(l)).matched

\* the text t has a header line
RECURSIVE HasHeader(_)
HasHeader(t) ==
    IF t = <<>> THEN FALSE
    ELSE IsHeaderLine(Head(t)) \/ HasHeader(Tail(t))

\* the text t has a bottom border before its first header line
RECURSIVE ClosedBeforeHeader(_)
ClosedBeforeHeader(t) ==
    IF t = <<>> THEN FALSE
    ELSE IF IsHeaderLine(Head(t)) THEN FALSE
    ELSE IsBottomBorder(StripCR(Head(t))) \/ ClosedBeforeHeader(Tail(t))

\* the records of the header lines of t whose box has a bottom border
\* before the next header, and of the last header line
RECURSIVE KeptHeaders(_)
KeptHeaders(t) ==
    IF t = <<>> THEN <<>>
    ELSE (IF /\ IsHeaderLine(Head(t))
             /\ ClosedBeforeHeader(Tail(t)) \/ ~HasHeader(Tail(t))
          THEN HeaderSources(<<Head(t)>>)
          ELSE <<>>) \o KeptHeaders(Tail(t))

\* C34: a header line pushes the previous record exactly when code was
\* being collected for it, and in either case makes its own record the
\* current one; a record whose box has no bottom border before the next
\* header is not among the returned sources.
C34_OpenBoxReplaced ==
    /\ [][\A l \in {RHeader1, RHeader2} :
            RagIterOn(l) =>
              /\ rag'.sources = IF rag.currentSource /= Null /\ rag.collectingCode
                                THEN Append(rag.sources, WithSnippet(rag))
                                ELSE rag.sources
              /\ <<rag'.currentSource>> = HeaderSources(<<l>>)
              /\ rag'.inSourceBox /\ ~rag'.collectingCode]_vars
    /\ []((fn = "rag" /\ pc = "done") =>
            IsSubSeq(SourceKeys(rag.sources), KeptHeaders(lines)))

\* the first box was left open with its path complete; only the second
\* record is returned
C34_Witness ==
    /\ fn = "rag" /\ pc = "done"
    /\ lines = <<RSources, RHeader1, RPinPart, RCont, RHeader2, RPinPart, RCont>>
    /\ Len(rag.sources) = 1
    /\ rag.sources[1].name = <<"bar">>
    /\ rag.sources[1].file_path = <<"foo", "/", "bar", ".", "py">>

\* the number of file-box top borders among the lines of t
RECURSIVE FileBoxTops(_)
FileBoxTops(t) ==
    IF t = <<>> THEN 0
    ELSE (IF IsFileBoxTop(Trim(Head(t))) THEN 1 ELSE 0) + FileBoxTops(Tail(t))

\* the record in progress, counted
OpenFileChange == IF pr.currentFileChange /= Null THEN 1 ELSE 0

\* C35: in the loop the pushed entries and the record in progress are as
\* many as the file-box top borders read; the return pushes nothing, so
\* fileChanges has one entry fewer than the text has top borders when a
\* record is open at the end of the input, and as many otherwise.
C35_NoEndFlush ==
    /\ (fn = "pr" /\ pc = "loop") =>
          Len(pr.fileChanges) + OpenFileChange = FileBoxTops(SubSeq(lines, 1, i))
    /\ (fn = "pr" /\ pc = "done") =>
          /\ Len(pr.fileChanges) + OpenFileChange = FileBoxTops(lines)
          /\ Len(pr.fileChanges) <= FileBoxTops(lines)

\* the second box is open at the end of the input: two top borders, one
\* entry
C35_Witness ==
    /\ fn = "pr" /\ pc = "done"
    /\ FileBoxTops(lines) = 2
    /\ Len(lines) = 4 /\ lines[3] = PBottom
    /\ Len(pr.fileChanges) = 1
    /\ pr.currentFileChange /= Null
    /\ pr.currentFileChange.filename = <<"src", "/", "app", ".", "py">>

\* C36: under every interleaving of the child's events the promise is
\* settled once the error or the close handler has run and its value never
\* changes afterwards; the settling step is the first 'error' or 'close',
\* its value carries the stdout and stderr accumulated up to it, and its
\* success is true exactly when the step is a close with exit code 0; each
\* data event appends its chunk at the end of its accumulator.
C36_SettlesOnce ==
    /\ []((fn = "cli" /\ (cli.child = "closed" \/ cli.errored)) => cli.settled)
    /\ []((fn = "cli" /\ cli.settled /\ cli.result.success) =>
             (cli.exitCode = "0" /\ ~cli.errored))
    /\ [][(fn = "cli" /\ cli.settled) =>
             (cli'.settled /\ cli'.result = cli.result)]_vars
    /\ [][(fn = "cli" /\ ~cli.settled /\ cli'.settled) =>
             /\ CliOnError \/ CliOnClose
             /\ cli'.result.stdout = cli.stdout
             /\ cli'.result.stderr = cli.stderr
             /\ cli'.result.success = (cli'.child = "closed" /\ cli'.exitCode = "0")]_vars
    /\ [][(fn = "cli" /\ cli'.stdout /= cli.stdout) =>
             /\ \E chunk \in StdoutChunks : cli'.stdout = cli.stdout \o chunk
             /\ cli'.stderr = cli.stderr]_vars
    /\ [][(fn = "cli" /\ cli'.stderr /= cli.stderr) =>
             /\ \E chunk \in StderrChunks : cli'.stderr = cli.stderr \o chunk
             /\ cli'.stdout = cli.stdout]_vars

\* 'error' settled the promise with nothing received; a chunk of stdout
\* arrived after it and the child closed with exit code 0
C36_Witness ==
    /\ fn = "cli" /\ cli.settled
    /\ cli.errored /\ cli.child = "closed" /\ cli.exitCode = "0"
    /\ ~cli.result.success
    /\ cli.result.stdout = <<>>
    /\ cli.stdout = <<"out">>

\* C37: when the index command has ended after a failed indexing, the
\* workspace state it leaves has repoPath, dbPath and collectionName
\* undefined and isPipelineConfigured() is false, whichever repository was
\* configured before.
C37_FailedIndexClears ==
    (fn = "ix" /\ ix.index.pc = "ended" /\ ix.index.outcome = "failed") =>
        /\ ix.index.atEnd = <<Cleared>>
        /\ ~IsPipelineConfigured(ix.index.atEnd[1])
        /\ ix.ws = Cleared

\* repository B was indexed and selected; the index of A failed and left
\* nothing configured
C37_Witness ==
    /\ fn = "ix" /\ ix.index.pc = "ended" /\ ix.index.outcome = "failed"
    /\ ix.index.repo = "A" /\ ix.disk["A"] = "failed"
    /\ ix.disk["B"] = "indexed"
    /\ ix.ws = Cleared

\* C38: the pipeline is configured only with the configuration of a
\* repository whose index run completed successfully, and a search spawns
\* the CLI only on the collection of such a repository.
C38_SearchOnlyIndexed ==
    fn = "ix" =>
        /\ IsPipelineConfigured(ix.ws) =>
              \E r \in Repos : ix.ws = ConfigOf(r) /\ ix.disk[r] = "indexed"
        /\ ix.find.pc = "ran" => ix.find.ran[1].index = "indexed"

\* C39: the retry button is in the error view exactly when the error is a
\* timeout and the repository path is known; a retry runs the summarization
\* on the repository path of the failed attempt with twice its timeout; the
\* attempt after k retries runs with 300 * 2^k seconds.
C39_RetryDoubles ==
    /\ [][RtRetry =>
             /\ rt'.repoPath = rt.failed.repoPath
             /\ rt'.timeout = <<2 * rt.failed.timeout[1]>>]_vars
    /\ []((fn = "rt" /\ rt.pc = "running") =>
             rt.timeout = <<DefaultTimeout * 2^rt.retries>>)
    /\ []((fn = "rt" /\ rt.pc = "error") =>
             (rt.view.offered <=>
                 /\ Includes(MessageLower(rt.message), <<"timeout">>)
                 /\ Truthy(rt.failed.repoPath)))

====
